---- MODULE Spec2Model ----
(***************************************************************************)
(* Model of the prompt-book MCP server (PromptBookServer): the text        *)
(* chunker, the pagination fetcher, the block decoder, update_prompt, the   *)
(* prompt book configuration, add_prompt and copy_prompt.                  *)
(*                                                                         *)
(* Strings are sequences of one-character strings, so that lengths,        *)
(* substrings and lastIndexOf are computed as the code computes them.      *)
(***************************************************************************)
EXTENDS Integers, Sequences, FiniteSets, TLC

VARIABLES
  \* splitTextIntoChunks(text, maxLength)
  text,            \* the argument text
  maxLength,       \* the argument maxLength
  remainingText,   \* local remainingText
  chunks,          \* local chunks
  splitPc,         \* "start" | "loop" | "done"
  \* list_prompts and its fetchAllResults call, against a paginated remote
  hasActiveBook,   \* this.activePromptBook and this.notion are set
  remoteRecords,   \* the records the remote database holds, in its order
  allResults,      \* local allResults
  hasMore,         \* local hasMore
  cursor,          \* local cursor (NoCursor for undefined)
  fetchPc,         \* "idle" | "loop" | "done"
  toolResult,      \* what list_prompts returned (NoResult before it returns)
  requests,        \* log: the start_cursor of every query sent
  responses,       \* log: every response received
  failure,         \* log: which request threw and with what message (NoFailure if none)
  \* read_prompt over the block tree of one page
  pageBlocks,      \* the blocks under the page on the remote, in document order
  readResult,      \* what read_prompt returned (NoResult before it returns)
  fetchLog,        \* log: the block ids fetchAllBlocks was called with, in order
  \* update_prompt invocations on one page of the remote
  pageChildren,    \* the blocks directly under the page, in order
  pageProps,       \* the page's properties Name, Type and Tags
  nextBlockId,     \* the id the remote gives the next block it creates
  upd,             \* per invocation: position, arguments, locals, result, call log
  \* the prompt book configuration and the tools that manage it
  config,          \* this.config: promptBooks and activePromptBookId
  configFile,      \* the content of the configuration file
  activePromptBook,\* this.activePromptBook (NoBook for null)
  notion,          \* this.notion (NoClient for null)
  nextBookId,      \* the id uuidv4() gives the next prompt book
  configResult,    \* what the last configuration tool returned
  dbJob,           \* create_prompt_database waiting for databases.create
  job,             \* a prompt tool invocation: tool, position, result, call log
  \* add_prompt on the database of the active prompt book
  dbTypes,         \* the options of the Type property of the database
  dbPrompts,       \* the pages of the database, in creation order
  add,             \* the add_prompt invocation: position, arguments, result
  \* copy_prompt of a page of paragraphs, and read_prompt of both pages
  sourcePage,      \* the paragraph blocks under the source page, in order
  copiedPage,      \* the blocks of the page copy_prompt created
  copy,            \* the copy_prompt invocation: position and locals
  reads,           \* what read_prompt returned for the pages it was called on
  \* successive decodes of one page by read_prompt and by copy_prompt
  decodes,         \* log: per decode its caller, numbering map, text, fetches
  \* the start of the server
  boot             \* the environment and the file at the start, what was loaded

splitVars == <<text, maxLength, remainingText, chunks, splitPc>>

fetchVars == <<hasActiveBook, remoteRecords, allResults, hasMore, cursor,
               fetchPc, toolResult, requests, responses, failure>>

decodeVars == <<pageBlocks, readResult, fetchLog>>

updateVars == <<pageChildren, pageProps, nextBlockId, upd>>

configVars == <<config, configFile, activePromptBook, notion, nextBookId,
                configResult, dbJob, job>>

addVars == <<dbTypes, dbPrompts, add>>

copyVars == <<sourcePage, copiedPage, copy, reads>>

repeatVars == <<decodes>>

bootVars == <<boot>>

vars == <<splitVars, fetchVars, decodeVars, updateVars, configVars, addVars,
          copyVars, repeatVars, bootVars>>

\* what the actions of one component leave alone
notSplit == <<fetchVars, decodeVars, updateVars, configVars, addVars,
  copyVars, repeatVars, bootVars>>
notFetch == <<splitVars, decodeVars, updateVars, configVars, addVars,
  copyVars, repeatVars, bootVars>>
notDecode == <<splitVars, fetchVars, updateVars, configVars, addVars,
  copyVars, repeatVars, bootVars>>
notUpdate == <<splitVars, fetchVars, decodeVars, configVars, addVars,
  copyVars, repeatVars, bootVars>>
notConfig == <<splitVars, fetchVars, decodeVars, updateVars, addVars,
  copyVars, repeatVars, bootVars>>
notAdd == <<splitVars, fetchVars, decodeVars, updateVars, configVars,
  copyVars, repeatVars, bootVars>>
notCopy == <<splitVars, fetchVars, decodeVars, updateVars, configVars,
  addVars, repeatVars, bootVars>>
notRepeat == <<splitVars, fetchVars, updateVars, configVars, addVars,
  copyVars, bootVars>>
notBoot == <<splitVars, fetchVars, decodeVars, updateVars, addVars, copyVars,
  repeatVars>>

----------------------------------------------------------------------------
(* Bounds *)

MaxTextLen == 6
MaxChunkLimit == 5
MaxRecords == 3
MaxRequests == 4
MaxBlocks == 4
MaxOldBlocks == 2
MaxBooks == 2
MaxJobCalls == 2
MaxPrompts == 2
MaxParagraphs == 2
MaxParagraphLen == 2
MaxDelimiters == 3
MaxDecodes == 2
ScenarioLimit == 20

\* the stand-in for the 2000 characters of a block, scaled to the texts of
\* the model
ScaledMaxLength == 3

\* characters texts are drawn from: a letter, the space, two sentence
\* terminators and the newline
Chars == {"a", " ", ".", "!", "\n"}

----------------------------------------------------------------------------
(* Generic helpers *)

Min(a, b) == IF a < b THEN a ELSE b

Max(a, b) == IF a > b THEN a ELSE b

MaxOfSet(S) == CHOOSE x \in S : \A y \in S : y <= x

RECURSIVE SeqsUpTo(_, _)
\* all sequences over S of length at most n
SeqsUpTo(S, n) ==
  IF n = 0 THEN {<<>>}
  ELSE LET shorter == SeqsUpTo(S, n - 1)
       IN shorter \cup {Append(s, c) : s \in {t \in shorter : Len(t) = n - 1}, c \in S}

RECURSIVE Concat(_)
\* chunks.join('')
Concat(ss) == IF ss = <<>> THEN <<>> ELSE Head(ss) \o Concat(Tail(ss))

----------------------------------------------------------------------------
(* String.prototype primitives, 0-based as in the source *)

\* s.substring(from, to) for 0 <= from <= to (to is clamped to s.length)
Substring(s, from, to) == SubSeq(s, from + 1, Min(to, Len(s)))

\* s.substring(from)
SubstringFrom(s, from) == SubSeq(s, from + 1, Len(s))

\* s.lastIndexOf(pat, fromIndex): the greatest index i <= fromIndex at which
\* pat occurs in s, or -1
LastIndexOf(s, pat, fromIndex) ==
  LET hits == {i \in 0..Min(fromIndex, Len(s) - Len(pat)) :
                 SubSeq(s, i + 1, i + Len(pat)) = pat}
  IN IF hits = {} THEN -1 ELSE MaxOfSet(hits)

----------------------------------------------------------------------------
(* The pagination fetcher: fetchAllResults under list_prompts.               *)
(* fetchAllBlocks and fetchAllBlocksWithClient are the same loop, line for   *)
(* line, over blocks.children.list.                                          *)

\* page_size: 100
PAGE_SIZE == 100

\* null / undefined / '' as a cursor: all falsy in `response.next_cursor || undefined`
NoCursor == -1

NoResult == [kind |-> "none"]

NoFailure == [at |-> 0, msg |-> "none"]

DATABASE_ERROR_MESSAGE == "database error"

NO_ACTIVE_PROMPT_BOOK == "No active prompt book selected"

\* messages the remote client can throw with
RemoteErrors == {"Could not find database", "rate limited"}

\* A cursor the remote hands out is the offset of the next record to serve.
OffsetOf(c) == IF c = NoCursor THEN 0 ELSE c

\* The responses the remote can give to a query carrying start_cursor c: any
\* page of at most page_size records from the offset on, with any has_more and
\* with or without a cursor to the rest.
RemoteResponses(records, c) ==
  LET off == OffsetOf(c)
  IN UNION {{[results |-> SubSeq(records, off + 1, off + k),
               has_more |-> hm,
               next_cursor |-> nc] : hm \in BOOLEAN, nc \in {NoCursor, off + k}} :
              k \in 0..Min(PAGE_SIZE, Len(records) - off)}

\* The response follows the pagination protocol: a page reporting has_more
\* carries a cursor, a page reporting no more is the one that ends the records.
WellFormed(records, c, r) ==
  /\ r.has_more => r.next_cursor # NoCursor
  /\ ~r.has_more => OffsetOf(c) + Len(r.results) = Len(records)

\* catch block of the tool: the error message decides the text
ErrorText(prefix, msg) ==
  IF msg = "Invalid database" \/ msg = "Could not find database"
  THEN DATABASE_ERROR_MESSAGE
  ELSE <<prefix, msg>>

\* the error result of a tool: a text and isError, no records
ErrorResult(prefix, msg) ==
  [kind |-> "error", isError |-> TRUE, text |-> ErrorText(prefix, msg),
   prompts |-> <<>>]

\* the result of list_prompts: processPromptResults keeps one item per page,
\* in order
ListResult(results) ==
  [kind |-> "ok", isError |-> FALSE, text |-> "prompts", prompts |-> results]

\* the invocations of update_prompt that can be in progress together
Invocations == {1, 2}

\* detailed_prompt (and any other argument) left out of the call
NoText == <<"undefined">>

Undefined == "undefined"

NoArgs == [prompt_id |-> FALSE, name |-> Undefined, type |-> Undefined,
           tags |-> Undefined, detailed_prompt |-> NoText]

IdleInvocation ==
  [pc |-> "idle", args |-> NoArgs, before |-> <<>>, existingBlocks |-> <<>>,
   idx |-> 0, result |-> NoResult, calls |-> <<>>, interfered |-> FALSE,
   appended |-> {}, thrown |-> "none"]

\* no prompt book (null / undefined)
NoBookId == 0

NoBook == [id |-> NoBookId, name |-> "", notion_token |-> "", notion_database_id |-> ""]

\* this.notion = null
NoClient == [auth |-> "null"]

\* { promptBooks: [] }
EmptyConfig == [promptBooks |-> <<>>, activePromptBookId |-> NoBookId]

NoConfigResult == [tool |-> "none", kind |-> "none", books |-> <<>>]

IdleDbJob == [pc |-> "idle", name |-> "", notion_token |-> "", activate |-> FALSE]

IdleJob == [pc |-> "idle", tool |-> "none", complete |-> TRUE, plan |-> <<>>,
            started |-> NoClient, result |-> NoResult, calls |-> <<>>]

\* the arguments of an add_prompt that was not called
NoAddArgs == [name |-> Undefined, detailed_prompt |-> NoText, type |-> Undefined,
              tags |-> Undefined, allow_new_type |-> Undefined]

IdleAdd == [pc |-> "idle", args |-> NoAddArgs, typesBefore |-> {},
            promptsBefore |-> <<>>, result |-> NoResult, calls |-> <<>>]

\* the type options a prompt database is created with
InitialTypes == {"T0", "T1"}

AddIdle ==
  /\ dbTypes = InitialTypes
  /\ dbPrompts = <<>>
  /\ add = IdleAdd

\* copy_prompt before it is called
IdleCopy == [pc |-> "idle", allBlocks |-> <<>>, content |-> <<>>]

CopyIdle ==
  /\ sourcePage = <<>>
  /\ copiedPage = <<>>
  /\ copy = IdleCopy
  /\ reads = {}
  /\ decodes = <<>>

\* the server constructed where no configuration file existed and no
\* DEFAULT_BOOKS was set
Booted ==
  [started |-> TRUE, fileExisted |-> FALSE,
   DEFAULT_BOOKS |-> [state |-> "unset", value |-> EmptyConfig],
   loaded |-> [config |-> EmptyConfig, active |-> NoBook]]

ConfigIdle ==
  /\ boot = Booted
  /\ config = EmptyConfig
  /\ configFile = EmptyConfig
  /\ activePromptBook = NoBook
  /\ notion = NoClient
  /\ nextBookId = 1
  /\ configResult = NoConfigResult
  /\ dbJob = IdleDbJob
  /\ job = IdleJob

UpdateIdle ==
  /\ pageChildren = <<>>
  /\ pageProps = [Name |-> "n0", Type |-> "T0", Tags |-> "g0"]
  /\ nextBlockId = 1
  /\ upd = [i \in Invocations |-> IdleInvocation]

DecodeIdle ==
  /\ pageBlocks = <<>>
  /\ readResult = NoResult
  /\ fetchLog = <<>>

FetchIdle ==
  /\ hasActiveBook = TRUE
  /\ remoteRecords = <<>>
  /\ allResults = <<>>
  /\ hasMore = TRUE
  /\ cursor = NoCursor
  /\ fetchPc = "idle"
  /\ toolResult = NoResult
  /\ requests = <<>>
  /\ responses = <<>>
  /\ failure = NoFailure

SplitIdle ==
  /\ text = <<>>
  /\ maxLength = 1
  /\ remainingText = <<>>
  /\ chunks = <<>>
  /\ splitPc = "done"

FetchInit ==
  /\ UpdateIdle
  /\ ConfigIdle
  /\ AddIdle
  /\ CopyIdle
  /\ SplitIdle
  /\ DecodeIdle
  /\ hasActiveBook \in BOOLEAN
  /\ remoteRecords \in {[i \in 1..n |-> i] : n \in 0..MaxRecords}
  /\ allResults = <<>>
  /\ hasMore = TRUE
  /\ cursor = NoCursor
  /\ fetchPc = "idle"
  /\ toolResult = NoResult
  /\ requests = <<>>
  /\ responses = <<>>
  /\ failure = NoFailure

\* list_prompts with no active prompt book: the error result, no remote call
ListPromptsNoBook ==
  /\ fetchPc = "idle"
  /\ ~hasActiveBook
  /\ toolResult' = [kind |-> "error", isError |-> TRUE,
                    text |-> NO_ACTIVE_PROMPT_BOOK, prompts |-> <<>>]
  /\ fetchPc' = "done"
  /\ UNCHANGED <<hasActiveBook, remoteRecords, allResults, hasMore, cursor,
                 requests, responses, failure>>
  /\ UNCHANGED notFetch

\* list_prompts calls fetchAllResults: allResults = [], hasMore = true,
\* cursor = undefined
ListPromptsCall ==
  /\ fetchPc = "idle"
  /\ hasActiveBook
  /\ allResults' = <<>>
  /\ hasMore' = TRUE
  /\ cursor' = NoCursor
  /\ fetchPc' = "loop"
  /\ UNCHANGED <<hasActiveBook, remoteRecords, toolResult, requests,
                 responses, failure>>
  /\ UNCHANGED notFetch

\* mutant: the loop goes on as long as the remote reports more
LoopContinuesWhileMore(hm, c) == hm

\* after a response: the while condition holds and the safety break
\* (!cursor && hasMore) is not taken
LoopContinues(hm, c) == hm /\ ~(c = NoCursor /\ hm)

\* start_cursor: cursor
StartCursor(c) == c

\* mutant: the new page replaces what was accumulated
AccumulateLast(acc, results) == results

\* allResults = [...allResults, ...response.results]
Accumulate(acc, results) == acc \o results

\* one loop iteration whose query succeeds
FetchPage ==
  /\ fetchPc = "loop"
  /\ Len(requests) < MaxRequests
  /\ \E r \in RemoteResponses(remoteRecords, StartCursor(cursor)) :
       /\ requests' = Append(requests, StartCursor(cursor))
       /\ responses' = Append(responses, r)
       /\ allResults' = Accumulate(allResults, r.results)
       /\ hasMore' = r.has_more
       /\ cursor' = r.next_cursor
       /\ IF LoopContinues(r.has_more, r.next_cursor)
          THEN /\ fetchPc' = "loop"
               /\ toolResult' = toolResult
          ELSE \* return allResults; list_prompts returns the prompts
               /\ fetchPc' = "done"
               /\ toolResult' = ListResult(Accumulate(allResults, r.results))
  /\ UNCHANGED <<hasActiveBook, remoteRecords, failure>>
  /\ UNCHANGED notFetch

\* mutant: the loop catches the error and asks again
FetchFailsRetried ==
  /\ fetchPc = "loop"
  /\ Len(requests) < MaxRequests
  /\ \E msg \in RemoteErrors :
       /\ requests' = Append(requests, StartCursor(cursor))
       /\ failure' = [at |-> Len(requests) + 1, msg |-> msg]
  /\ UNCHANGED <<hasActiveBook, remoteRecords, allResults, hasMore, cursor,
                 fetchPc, toolResult, responses>>
  /\ UNCHANGED notFetch

\* one loop iteration whose query throws: nothing catches it before the
\* catch block of list_prompts
FetchFails ==
  /\ fetchPc = "loop"
  /\ Len(requests) < MaxRequests
  /\ \E msg \in RemoteErrors :
       /\ requests' = Append(requests, StartCursor(cursor))
       /\ failure' = [at |-> Len(requests) + 1, msg |-> msg]
       /\ toolResult' = ErrorResult("Error listing prompts: ", msg)
  /\ fetchPc' = "done"
  /\ UNCHANGED <<hasActiveBook, remoteRecords, allResults, hasMore, cursor,
                 responses>>
  /\ UNCHANGED notFetch

FetchNext == ListPromptsNoBook \/ ListPromptsCall \/ FetchPage \/ FetchFails

SpecFetch == FetchInit /\ [][FetchNext]_vars

----------------------------------------------------------------------------
(* The block tree of a page, as the remote serves it                         *)

\* pageBlocks[b] is block b: [type, empty, parent]. parent is PageId for a
\* block directly under the page. Blocks are numbered in document order (a
\* block before its children, children in their order), so the children of a
\* block are its child ids in increasing order.
PageId == 0

\* the kinds of block the page is built from: a paragraph with and without
\* text, the two list items, a synced block, and a block of a kind the
\* decoder does not know (the API reports those as "unsupported"), which
\* may carry a text the decoder never reads
BlockKinds ==
  {[type |-> "paragraph", empty |-> FALSE],
   [type |-> "paragraph", empty |-> TRUE],
   [type |-> "numbered_list_item", empty |-> FALSE],
   [type |-> "bulleted_list_item", empty |-> FALSE],
   [type |-> "synced_block", empty |-> TRUE],
   [type |-> "unsupported", empty |-> FALSE]}

RECURSIVE AscendingSeq(_)
\* the elements of a set of numbers, in increasing order
AscendingSeq(S) ==
  IF S = {} THEN <<>>
  ELSE LET m == CHOOSE x \in S : \A y \in S : x <= y
       IN <<m>> \o AscendingSeq(S \ {m})

\* the children of block (or page) p, in order
ChildIds(tree, p) == AscendingSeq({b \in 1..Len(tree) : tree[b].parent = p})

\* block.has_children
HasChildren(tree, b) == \E c \in 1..Len(tree) : tree[c].parent = b

\* rich_text.map(textPart => textPart.plain_text).join(''): every block with
\* text has a text of its own
PlainText(tree, b) == IF tree[b].empty THEN "" ELSE "t" \o ToString(b)

\* blocks.children.list of a remote that follows the protocol: at most
\* page_size children from the offset on
ChildrenPage(records, c) ==
  LET off == OffsetOf(c)
      k == Min(PAGE_SIZE, Len(records) - off)
  IN [results |-> SubSeq(records, off + 1, off + k),
      has_more |-> off + k < Len(records),
      next_cursor |-> IF off + k < Len(records) THEN off + k ELSE NoCursor]

RECURSIVE FetchLoop(_, _, _)
\* the while loop of fetchAllBlocks
FetchLoop(records, c, acc) ==
  LET r == ChildrenPage(records, StartCursor(c))
      all == Accumulate(acc, r.results)
  IN IF LoopContinues(r.has_more, r.next_cursor)
     THEN FetchLoop(records, r.next_cursor, all)
     ELSE all

\* fetchAllBlocks(blockId)
fetchAllBlocks(tree, blockId) == FetchLoop(ChildIds(tree, blockId), NoCursor, <<>>)

----------------------------------------------------------------------------
(* extractContentFromBlocks. Content is a sequence of tokens: the text of a  *)
(* block, a marker, one indentation unit "  ", or one newline.               *)

NL == "\n"

\* the bullet character (U+2022) and the space after it
Bullet == "* "

\* '  '.repeat(indentLevel)
IndentOf(indentLevel) == [i \in 1..indentLevel |-> "  "]

\* !content.trim(): only white space
IsBlank(content) == \A i \in 1..Len(content) : content[i] \in {"  ", NL, ""}

\* mutant: one counter per kind of list, whatever the depth
ListIdOfKindOnly(indentLevel, type) ==
  <<0, IF type = "numbered_list_item" THEN "numbered"
       ELSE IF type = "bulleted_list_item" THEN "bulleted" ELSE "none">>

\* listId = `${indentLevel}-${numbered | bulleted | none}`
ListIdOf(indentLevel, type) ==
  <<indentLevel, IF type = "numbered_list_item" THEN "numbered"
                 ELSE IF type = "bulleted_list_item" THEN "bulleted" ELSE "none">>

\* currentListId = ''
NoListId == <<-1, "">>

\* listNumbering[listId] || 1
NumberAt(listNumbering, listId) ==
  IF listId \in DOMAIN listNumbering THEN listNumbering[listId] ELSE 1

\* listNumbering[listId] = n
SetNumber(listNumbering, listId, n) ==
  [k \in DOMAIN listNumbering \cup {listId} |->
     IF k = listId THEN n ELSE listNumbering[k]]

\* {}: the default of the listNumbering parameter
EmptyNumbering == [k \in {} |-> 1]

\* mutant: the children of an item are decoded at the item's own level
ChildLevelSame(indentLevel) == indentLevel

\* indentLevel + 1 for the children of list items, toggles, to-dos and callouts
ChildLevel(indentLevel) == indentLevel + 1

\* mutant: only the kinds with a branch of their own are decoded
FallbackNever(hasChildren, isList) == FALSE

\* the last branch: block.has_children && !isList
FallbackApplies(hasChildren, isList) == hasChildren /\ ~isList

\* the line of a block that is rendered without looking at its children
LeafLine(type, t) ==
  CASE type = "paragraph" -> <<t, NL, NL>>
    [] type = "heading_1" -> <<"# ", t, NL, NL>>
    [] type = "heading_2" -> <<"## ", t, NL, NL>>
    [] type = "heading_3" -> <<"### ", t, NL, NL>>
    [] type = "code" -> <<"<pre><code>", NL, t, NL, "</code></pre>", NL, NL>>
    [] type = "quote" -> <<"> ", t, NL, NL>>
    [] type = "divider" -> <<"---", NL, NL>>
    [] type \in {"image", "bookmark", "embed", "video", "audio", "file", "pdf"}
         -> <<"[", t, "](url)", NL, NL>>
    [] type = "equation" -> <<"$$", NL, t, NL, "$$", NL, NL>>
    [] type = "template" -> <<"*Template:* ", t, NL, NL>>
    [] type = "link_to_page" -> <<"[Link to page](notion://page/)", NL, NL>>

LeafKinds ==
  {"paragraph", "heading_1", "heading_2", "heading_3", "code", "quote",
   "divider", "image", "bookmark", "embed", "video", "audio", "file", "pdf",
   "equation", "template", "link_to_page"}

RECURSIVE FormatRows(_, _, _, _)
\* the loop of formatTableContent; a row has one cell, its text
FormatRows(tree, rows, indent, hasProcessedHeader) ==
  IF rows = <<>> THEN <<>>
  ELSE LET row == Head(rows)
           line == indent \o <<"| ", PlainText(tree, row), " |", NL>>
       IN IF tree[row].type # "table_row"
          THEN FormatRows(tree, Tail(rows), indent, hasProcessedHeader)
          ELSE IF ~hasProcessedHeader
          THEN line \o indent \o <<"| ", "---", " |", NL>>
                 \o FormatRows(tree, Tail(rows), indent, TRUE)
          ELSE line \o FormatRows(tree, Tail(rows), indent, TRUE)

\* formatTableContent(tableRows, indent)
formatTableContent(tree, tableRows, indent) ==
  FormatRows(tree, tableRows, indent, FALSE) \o <<NL>>

RECURSIVE extractContentFromBlocks(_, _, _, _, _)
RECURSIVE DecodeColumns(_, _, _, _)
RECURSIVE DecodeBlock(_, _, _, _, _)
RECURSIVE DecodeFrom(_, _, _, _, _)

\* fetchAllBlocks(block.id) followed by the recursive call on the result
DecodeChildren(tree, block, listNumbering, indentLevel, log) ==
  extractContentFromBlocks(tree, fetchAllBlocks(tree, block), listNumbering,
                           indentLevel, Append(log, block))

\* the for loop over the columns of a column_list; acc is what the loop has
\* produced so far
DecodeColumns(tree, columns, acc, indentLevel) ==
  IF columns = <<>> THEN acc
  ELSE LET column == Head(columns)
       IN IF tree[column].type = "column" /\ HasChildren(tree, column)
          THEN LET sub == DecodeChildren(tree, column, acc.listNumbering,
                                         indentLevel, acc.log)
               IN DecodeColumns(tree, Tail(columns),
                                [content |-> acc.content \o sub.content,
                                 listNumbering |-> sub.listNumbering,
                                 log |-> sub.log],
                                indentLevel)
          ELSE DecodeColumns(tree, Tail(columns), acc, indentLevel)

\* the if / else-if chain of one iteration: what the block adds to content,
\* the numbering map and the fetch log after it
DecodeBlock(tree, block, listNumbering, indentLevel, log) ==
  LET type == tree[block].type
      t == PlainText(tree, block)
      indent == IndentOf(indentLevel)
      hasChildren == HasChildren(tree, block)
      isList == type \in {"numbered_list_item", "bulleted_list_item"}
      listId == ListIdOf(indentLevel, type)
      number == NumberAt(listNumbering, listId)
      counted == IF type = "numbered_list_item"
                 THEN SetNumber(listNumbering, listId, number + 1)
                 ELSE listNumbering
      marker == IF type = "numbered_list_item"
                THEN ToString(number) \o ". " ELSE Bullet
      below == DecodeChildren(tree, block, counted, ChildLevel(indentLevel), log)
      same == DecodeChildren(tree, block, listNumbering, indentLevel, log)
      head == CASE type = "toggle" -> <<"**", t, "**", NL, NL>>
                [] type = "to_do" -> <<"- [ ] ", t, NL>>
                [] type = "callout" -> <<"> ", "**Note:** ", t, NL, NL>>
                [] OTHER -> <<>>
      unchanged == [content |-> <<>>, listNumbering |-> listNumbering, log |-> log]
  IN CASE type \in LeafKinds ->
            [content |-> indent \o LeafLine(type, t),
             listNumbering |-> listNumbering, log |-> log]
       [] isList ->
            IF hasChildren
            THEN [content |-> indent \o <<marker, t>>
                                \o (IF ~IsBlank(below.content)
                                    THEN <<NL>> \o below.content ELSE <<>>)
                                \o <<NL>>,
                  listNumbering |-> below.listNumbering, log |-> below.log]
            ELSE [content |-> indent \o <<marker, t, NL>>,
                  listNumbering |-> counted, log |-> log]
       [] type \in {"toggle", "to_do", "callout"} ->
            IF hasChildren
            THEN [content |-> indent \o head \o below.content,
                  listNumbering |-> below.listNumbering, log |-> below.log]
            ELSE [content |-> indent \o head,
                  listNumbering |-> listNumbering, log |-> log]
       [] type = "table" ->
            IF hasChildren
            THEN [content |-> formatTableContent(tree, fetchAllBlocks(tree, block), indent),
                  listNumbering |-> listNumbering, log |-> Append(log, block)]
            ELSE unchanged
       [] type = "synced_block" ->
            IF hasChildren THEN same ELSE unchanged
       [] type = "column_list" /\ hasChildren ->
            DecodeColumns(tree, fetchAllBlocks(tree, block),
                          [content |-> <<>>, listNumbering |-> listNumbering,
                           log |-> Append(log, block)],
                          indentLevel)
       [] OTHER ->
            IF FallbackApplies(hasChildren, isList) THEN same ELSE unchanged

\* mutant: what a block renders is put before what the earlier blocks rendered
AppendContentBefore(content, out) == out \o content

\* content += what the block renders
AppendContent(content, out) == content \o out

\* the for loop of extractContentFromBlocks from blocks[i] on; st holds
\* content, listNumbering, currentListType, currentListId and the fetch log
DecodeFrom(tree, blocks, i, st, indentLevel) ==
  IF i > Len(blocks) THEN st
  ELSE
    LET block == blocks[i]
        type == tree[block].type
        isNumberedList == type = "numbered_list_item"
        isList == type \in {"numbered_list_item", "bulleted_list_item"}
        listId == ListIdOf(indentLevel, type)
        newList == st.currentListType # type \/ st.currentListId # listId
        \* handle list transitions
        numbering == IF isList /\ newList /\ isNumberedList
                     THEN SetNumber(st.listNumbering, listId, 1)
                     ELSE st.listNumbering
        out == DecodeBlock(tree, block, numbering, indentLevel, st.log)
    IN DecodeFrom(tree, blocks, i + 1,
                  [content |-> AppendContent(st.content, out.content),
                   listNumbering |-> out.listNumbering,
                   log |-> out.log,
                   currentListType |-> IF isList THEN type ELSE "null",
                   currentListId |-> IF isList THEN listId ELSE NoListId],
                  indentLevel)

\* extractContentFromBlocks(blocks, listNumbering, indentLevel): the content,
\* with the numbering map as the call leaves it (the map is shared by
\* reference) and the fetch log
extractContentFromBlocks(tree, blocks, listNumbering, indentLevel, log) ==
  LET st == DecodeFrom(tree, blocks, 1,
                       [content |-> <<>>, listNumbering |-> listNumbering,
                        log |-> log, currentListType |-> "null",
                        currentListId |-> NoListId],
                       indentLevel)
  IN [content |-> st.content, listNumbering |-> st.listNumbering, log |-> st.log]

----------------------------------------------------------------------------
(* extractContentFromBlocksWithClient: the decoder of copy_prompt, which     *)
(* reads the children from the client it is given. notionClient stands for   *)
(* the block tree that client serves.                                        *)

\* mutant: the children are returned last first
fetchAllBlocksWithClientReversed(notionClient, blockId) ==
  LET all == FetchLoop(ChildIds(notionClient, blockId), NoCursor, <<>>)
  IN [k \in 1..Len(all) |-> all[Len(all) + 1 - k]]

\* fetchAllBlocksWithClient(blockId, notionClient)
fetchAllBlocksWithClient(notionClient, blockId) ==
  FetchLoop(ChildIds(notionClient, blockId), NoCursor, <<>>)

RECURSIVE extractContentFromBlocksWithClient(_, _, _, _, _)
RECURSIVE DecodeColumnsWithClient(_, _, _, _)
RECURSIVE DecodeBlockWithClient(_, _, _, _, _)
RECURSIVE DecodeFromWithClient(_, _, _, _, _)

\* fetchAllBlocksWithClient(block.id, notionClient) followed by the recursive call on the result
DecodeChildrenWithClient(notionClient, block, listNumbering, indentLevel, log) ==
  extractContentFromBlocksWithClient(notionClient, fetchAllBlocksWithClient(notionClient, block), listNumbering,
                           indentLevel, Append(log, block))

\* the for loop over the columns of a column_list; acc is what the loop has
\* produced so far
DecodeColumnsWithClient(notionClient, columns, acc, indentLevel) ==
  IF columns = <<>> THEN acc
  ELSE LET column == Head(columns)
       IN IF notionClient[column].type = "column" /\ HasChildren(notionClient, column)
          THEN LET sub == DecodeChildrenWithClient(notionClient, column, acc.listNumbering,
                                         indentLevel, acc.log)
               IN DecodeColumnsWithClient(notionClient, Tail(columns),
                                [content |-> acc.content \o sub.content,
                                 listNumbering |-> sub.listNumbering,
                                 log |-> sub.log],
                                indentLevel)
          ELSE DecodeColumnsWithClient(notionClient, Tail(columns), acc, indentLevel)

\* the if / else-if chain of one iteration: what the block adds to content,
\* the numbering map and the fetch log after it
DecodeBlockWithClient(notionClient, block, listNumbering, indentLevel, log) ==
  LET type == notionClient[block].type
      t == PlainText(notionClient, block)
      indent == IndentOf(indentLevel)
      hasChildren == HasChildren(notionClient, block)
      isList == type \in {"numbered_list_item", "bulleted_list_item"}
      listId == ListIdOf(indentLevel, type)
      number == NumberAt(listNumbering, listId)
      counted == IF type = "numbered_list_item"
                 THEN SetNumber(listNumbering, listId, number + 1)
                 ELSE listNumbering
      marker == IF type = "numbered_list_item"
                THEN ToString(number) \o ". " ELSE Bullet
      below == DecodeChildrenWithClient(notionClient, block, counted, ChildLevel(indentLevel), log)
      same == DecodeChildrenWithClient(notionClient, block, listNumbering, indentLevel, log)
      head == CASE type = "toggle" -> <<"**", t, "**", NL, NL>>
                [] type = "to_do" -> <<"- [ ] ", t, NL>>
                [] type = "callout" -> <<"> ", "**Note:** ", t, NL, NL>>
                [] OTHER -> <<>>
      unchanged == [content |-> <<>>, listNumbering |-> listNumbering, log |-> log]
  IN CASE type \in LeafKinds ->
            [content |-> indent \o LeafLine(type, t),
             listNumbering |-> listNumbering, log |-> log]
       [] isList ->
            IF hasChildren
            THEN [content |-> indent \o <<marker, t>>
                                \o (IF ~IsBlank(below.content)
                                    THEN <<NL>> \o below.content ELSE <<>>)
                                \o <<NL>>,
                  listNumbering |-> below.listNumbering, log |-> below.log]
            ELSE [content |-> indent \o <<marker, t, NL>>,
                  listNumbering |-> counted, log |-> log]
       [] type \in {"toggle", "to_do", "callout"} ->
            IF hasChildren
            THEN [content |-> indent \o head \o below.content,
                  listNumbering |-> below.listNumbering, log |-> below.log]
            ELSE [content |-> indent \o head,
                  listNumbering |-> listNumbering, log |-> log]
       [] type = "table" ->
            IF hasChildren
            THEN [content |-> formatTableContent(notionClient, fetchAllBlocksWithClient(notionClient, block), indent),
                  listNumbering |-> listNumbering, log |-> Append(log, block)]
            ELSE unchanged
       [] type = "synced_block" ->
            IF hasChildren THEN same ELSE unchanged
       [] type = "column_list" /\ hasChildren ->
            DecodeColumnsWithClient(notionClient, fetchAllBlocksWithClient(notionClient, block),
                          [content |-> <<>>, listNumbering |-> listNumbering,
                           log |-> Append(log, block)],
                          indentLevel)
       [] OTHER ->
            IF FallbackApplies(hasChildren, isList) THEN same ELSE unchanged

\* the for loop of extractContentFromBlocksWithClient from blocks[i] on; st holds
\* content, listNumbering, currentListType, currentListId and the fetch log
DecodeFromWithClient(notionClient, blocks, i, st, indentLevel) ==
  IF i > Len(blocks) THEN st
  ELSE
    LET block == blocks[i]
        type == notionClient[block].type
        isNumberedList == type = "numbered_list_item"
        isList == type \in {"numbered_list_item", "bulleted_list_item"}
        listId == ListIdOf(indentLevel, type)
        newList == st.currentListType # type \/ st.currentListId # listId
        \* handle list transitions
        numbering == IF isList /\ newList /\ isNumberedList
                     THEN SetNumber(st.listNumbering, listId, 1)
                     ELSE st.listNumbering
        out == DecodeBlockWithClient(notionClient, block, numbering, indentLevel, st.log)
    IN DecodeFromWithClient(notionClient, blocks, i + 1,
                  [content |-> AppendContent(st.content, out.content),
                   listNumbering |-> out.listNumbering,
                   log |-> out.log,
                   currentListType |-> IF isList THEN type ELSE "null",
                   currentListId |-> IF isList THEN listId ELSE NoListId],
                  indentLevel)

\* extractContentFromBlocksWithClient(blocks, listNumbering, indentLevel): the content,
\* with the numbering map as the call leaves it (the map is shared by
\* reference) and the fetch log
extractContentFromBlocksWithClient(notionClient, blocks, listNumbering, indentLevel, log) ==
  LET st == DecodeFromWithClient(notionClient, blocks, 1,
                       [content |-> <<>>, listNumbering |-> listNumbering,
                        log |-> log, currentListType |-> "null",
                        currentListId |-> NoListId],
                       indentLevel)
  IN [content |-> st.content, listNumbering |-> st.listNumbering, log |-> st.log]

----------------------------------------------------------------------------
(* read_prompt on a page the remote holds                                    *)

RECURSIVE AncestorsOrSelf(_, _)
\* b and the blocks above it
AncestorsOrSelf(tree, b) ==
  IF b = PageId THEN {} ELSE {b} \cup AncestorsOrSelf(tree, tree[b].parent)

DecodeInit ==
  /\ SplitIdle
  /\ FetchIdle
  /\ UpdateIdle
  /\ ConfigIdle
  /\ AddIdle
  /\ CopyIdle
  /\ pageBlocks = <<>>
  /\ readResult = NoResult
  /\ fetchLog = <<>>

\* Someone adds a block at the end of the page or at the end of the children
\* of a block on the path to the last block: every tree is built, once.
RemoteAppendBlock ==
  /\ readResult = NoResult
  /\ Len(pageBlocks) < MaxBlocks
  /\ \E kind \in BlockKinds :
       \E p \in {PageId} \cup AncestorsOrSelf(pageBlocks, Len(pageBlocks)) :
         pageBlocks' = Append(pageBlocks,
                              [type |-> kind.type, empty |-> kind.empty, parent |-> p])
  /\ UNCHANGED <<readResult, fetchLog>>
  /\ UNCHANGED notDecode

\* read_prompt: pages.retrieve, fetchAllBlocks(promptId), then
\* extractContentFromBlocks(allBlocks) with a fresh numbering map at level 0
ReadPrompt ==
  /\ readResult = NoResult
  /\ hasActiveBook
  /\ LET out == DecodeChildren(pageBlocks, PageId, EmptyNumbering, 0, <<>>)
     IN /\ readResult' = [kind |-> "ok", isError |-> FALSE, text |-> out.content]
        /\ fetchLog' = out.log
  /\ UNCHANGED pageBlocks
  /\ UNCHANGED notDecode

\* read_prompt whose pages.retrieve throws: the catch block's error result
ReadPromptFails ==
  /\ readResult = NoResult
  /\ hasActiveBook
  /\ \E msg \in RemoteErrors :
       readResult' = [kind |-> "error", isError |-> TRUE,
                      text |-> ErrorText("Error reading prompt: ", msg)]
  /\ UNCHANGED <<pageBlocks, fetchLog>>
  /\ UNCHANGED notDecode

DecodeNext == RemoteAppendBlock \/ ReadPrompt \/ ReadPromptFails

SpecDecode == DecodeInit /\ [][DecodeNext]_vars

----------------------------------------------------------------------------
(* Successive decodes of one page: read_prompt decodes with                  *)
(* extractContentFromBlocks and copy_prompt with                             *)
(* extractContentFromBlocksWithClient, over an unchanged block tree.         *)

\* the kinds of block of the page that is decoded again: the kind that
\* counts, one that nests and one that does neither
RepeatKinds ==
  {[type |-> "numbered_list_item", empty |-> FALSE],
   [type |-> "toggle", empty |-> FALSE],
   [type |-> "paragraph", empty |-> FALSE]}

\* the numbering map the latest decode left behind
LeftBehind ==
  IF decodes = <<>> THEN EmptyNumbering ELSE decodes[Len(decodes)].left

\* mutant: one map for all calls, as a default evaluated once would give
TopLevelNumberingShared(previous) == previous

\* listNumbering = {}: the default parameter is evaluated at every call that
\* omits it, whatever map an earlier call left behind
TopLevelNumbering(previous) == EmptyNumbering

RepeatInit ==
  /\ DecodeInit
  /\ hasActiveBook

\* the page is built before the first decode and stays as it is afterwards
RepeatAppendBlock ==
  /\ decodes = <<>>
  /\ Len(pageBlocks) < MaxBlocks
  /\ \E kind \in RepeatKinds :
       \E p \in {PageId} \cup AncestorsOrSelf(pageBlocks, Len(pageBlocks)) :
         pageBlocks' = Append(pageBlocks,
                              [type |-> kind.type, empty |-> kind.empty, parent |-> p])
  /\ UNCHANGED <<readResult, fetchLog, decodes>>
  /\ UNCHANGED notRepeat

\* read_prompt: fetchAllBlocks(promptId), then
\* extractContentFromBlocks(allBlocks) with the default numbering map
DecodeByReadPrompt ==
  /\ Len(decodes) < MaxDecodes
  /\ LET start == TopLevelNumbering(LeftBehind)
         out == DecodeChildren(pageBlocks, PageId, start, 0, <<>>)
     IN decodes' = Append(decodes,
                          [by |-> "read_prompt", numbering |-> start,
                           text |-> out.content, log |-> out.log,
                           left |-> out.listNumbering])
  /\ UNCHANGED <<pageBlocks, readResult, fetchLog>>
  /\ UNCHANGED notRepeat

\* copy_prompt: fetchAllBlocksWithClient(promptId, sourceNotion), then
\* extractContentFromBlocksWithClient(allBlocks, sourceNotion, {}, 0)
DecodeByCopyPrompt ==
  /\ Len(decodes) < MaxDecodes
  /\ LET out == DecodeChildrenWithClient(pageBlocks, PageId, EmptyNumbering,
                                         0, <<>>)
     IN decodes' = Append(decodes,
                          [by |-> "copy_prompt", numbering |-> EmptyNumbering,
                           text |-> out.content, log |-> out.log,
                           left |-> out.listNumbering])
  /\ UNCHANGED <<pageBlocks, readResult, fetchLog>>
  /\ UNCHANGED notRepeat

RepeatNext == RepeatAppendBlock \/ DecodeByReadPrompt \/ DecodeByCopyPrompt

SpecRepeat == RepeatInit /\ [][RepeatNext]_vars

----------------------------------------------------------------------------
(* splitTextIntoChunks *)

\* mutant: the paragraph break is searched one character short of maxLength
ParagraphBreakBelow(rem, m) == LastIndexOf(rem, <<"\n", "\n">>, m - 1)

\* remainingText.lastIndexOf('\n\n', maxLength)
ParagraphBreak(rem, m) == LastIndexOf(rem, <<"\n", "\n">>, m)

\* Math.max of the lastIndexOf of '. ', '! ' and '? '
SentenceBreak(rem, m) ==
  Max(LastIndexOf(rem, <<".", " ">>, m),
      Max(LastIndexOf(rem, <<"!", " ">>, m),
          LastIndexOf(rem, <<"?", " ">>, m)))

\* remainingText.lastIndexOf(' ', maxLength)
SpaceBreak(rem, m) == LastIndexOf(rem, <<" ">>, m)

\* mutant: any delimiter found is accepted
PastStart(x, m) == x >= 0

\* x > maxLength / 2, the division being exact (floating point) in the source
PastHalf(x, m) == 2 * x > m

\* mutant: without a delimiter the text is cut at a third of maxLength
BreakPointHardThird(rem, m) ==
  IF PastHalf(ParagraphBreak(rem, m), m) THEN ParagraphBreak(rem, m) + 2
  ELSE IF PastHalf(SentenceBreak(rem, m), m) THEN SentenceBreak(rem, m) + 2
  ELSE IF PastHalf(SpaceBreak(rem, m), m) THEN SpaceBreak(rem, m) + 1
  ELSE (m + 2) \div 3

\* the break point of one loop iteration
BreakPoint(rem, m) ==
  IF PastHalf(ParagraphBreak(rem, m), m) THEN ParagraphBreak(rem, m) + 2
  ELSE IF PastHalf(SentenceBreak(rem, m), m) THEN SentenceBreak(rem, m) + 2
  ELSE IF PastHalf(SpaceBreak(rem, m), m) THEN SpaceBreak(rem, m) + 1
  ELSE m

\* mutant: the cut swallows the character after the break point
RestAfterCutSkipping(rem, bp) == SubstringFrom(rem, bp + 1)

\* remainingText = remainingText.substring(breakPoint)
RestAfterCut(rem, bp) == SubstringFrom(rem, bp)

SplitInit ==
  /\ UpdateIdle
  /\ ConfigIdle
  /\ AddIdle
  /\ CopyIdle
  /\ FetchIdle
  /\ DecodeIdle
  /\ text \in SeqsUpTo(Chars, MaxTextLen)
  /\ maxLength \in 1..MaxChunkLimit
  /\ remainingText = <<>>
  /\ chunks = <<>>
  /\ splitPc = "start"

\* text.length <= maxLength: return [text]
SplitFits ==
  /\ splitPc = "start"
  /\ Len(text) <= maxLength
  /\ chunks' = <<text>>
  /\ splitPc' = "done"
  /\ UNCHANGED <<text, maxLength, remainingText>>
  /\ UNCHANGED notSplit

\* let remainingText = text, entering the while loop
SplitEnterLoop ==
  /\ splitPc = "start"
  /\ Len(text) > maxLength
  /\ remainingText' = text
  /\ splitPc' = "loop"
  /\ UNCHANGED <<text, maxLength, chunks>>
  /\ UNCHANGED notSplit

\* the remaining text fits: push it and break
SplitLast ==
  /\ splitPc = "loop"
  /\ Len(remainingText) > 0
  /\ Len(remainingText) <= maxLength
  /\ chunks' = Append(chunks, remainingText)
  /\ splitPc' = "done"
  /\ UNCHANGED <<text, maxLength, remainingText>>
  /\ UNCHANGED notSplit

\* one cut: push substring(0, breakPoint), keep substring(breakPoint)
SplitCut ==
  /\ splitPc = "loop"
  /\ Len(remainingText) > maxLength
  /\ LET bp == BreakPoint(remainingText, maxLength)
     IN /\ chunks' = Append(chunks, Substring(remainingText, 0, bp))
        /\ remainingText' = RestAfterCut(remainingText, bp)
  /\ UNCHANGED <<text, maxLength, splitPc>>
  /\ UNCHANGED notSplit

\* the while condition fails: remainingText.length = 0
SplitExit ==
  /\ splitPc = "loop"
  /\ Len(remainingText) = 0
  /\ splitPc' = "done"
  /\ UNCHANGED <<text, maxLength, remainingText, chunks>>
  /\ UNCHANGED notSplit

SplitNext == SplitFits \/ SplitEnterLoop \/ SplitLast \/ SplitCut \/ SplitExit

SpecSplit == SplitInit /\ [][SplitNext]_vars

\* the scenario of a text 2.25 times as long as the limit (4500 characters
\* for 2000): a run of letters with delimiters of one kind, spaces or
\* sentence terminators, at up to MaxDelimiters places
ScenarioLength(m) == (9 * m + 3) \div 4

DelimiterKinds == {<<" ">>, <<".", " ">>}

RECURSIVE SubsetsUpTo(_, _)
\* the subsets of S of at most k elements
SubsetsUpTo(S, k) ==
  IF k = 0 THEN {{}}
  ELSE LET smaller == SubsetsUpTo(S, k - 1)
       IN smaller \cup {X \cup {p} : X \in smaller, p \in S}

\* the text of length n with the delimiter d starting at the indexes in D
ScenarioText(n, d, D) ==
  [i \in 1..n |->
     IF (i - 1) \in D THEN d[1]
     ELSE IF Len(d) = 2 /\ (i - 2) \in D THEN d[2]
     ELSE "a"]

ScenarioInit ==
  /\ UpdateIdle
  /\ ConfigIdle
  /\ AddIdle
  /\ CopyIdle
  /\ FetchIdle
  /\ DecodeIdle
  /\ maxLength = ScenarioLimit
  /\ \E d \in DelimiterKinds :
       \E D \in SubsetsUpTo(0..(ScenarioLength(ScenarioLimit) - 1),
                            MaxDelimiters) :
         text = ScenarioText(ScenarioLength(ScenarioLimit), d, D)
  /\ remainingText = <<>>
  /\ chunks = <<>>
  /\ splitPc = "start"

\* the steps of a call whose text is longer than the limit
ScenarioNext == SplitEnterLoop \/ SplitLast \/ SplitCut \/ SplitExit

SpecScenario == ScenarioInit /\ [][ScenarioNext]_vars

\* the same calls, over texts without the second sentence terminator
SplitInitFair ==
  /\ SplitInit
  /\ \A i \in 1..Len(text) : text[i] # "!"

\* the function runs to its end once called: every step of it is taken
SpecSplitFair == SplitInitFair /\ [][SplitNext]_vars /\ WF_vars(SplitNext)

----------------------------------------------------------------------------
(* createParagraphBlocksFromText *)

RECURSIVE SplitLoop(_, _)
\* the while loop of splitTextIntoChunks, run to its end
SplitLoop(rem, m) ==
  IF Len(rem) = 0 THEN <<>>
  ELSE IF Len(rem) <= m THEN <<rem>>
  ELSE LET bp == BreakPoint(rem, m)
       IN <<Substring(rem, 0, bp)>> \o SplitLoop(RestAfterCut(rem, bp), m)

\* splitTextIntoChunks(text, maxLength)
splitTextIntoChunks(t, m) == IF Len(t) <= m THEN <<t>> ELSE SplitLoop(t, m)

\* createParagraphBlocksFromText(text): one paragraph block per chunk
createParagraphBlocksFromText(t) ==
  LET cs == splitTextIntoChunks(t, ScaledMaxLength)
  IN [k \in 1..Len(cs) |-> [type |-> "paragraph", content |-> cs[k]]]

----------------------------------------------------------------------------
(* update_prompt. A step is one remote call together with the local code     *)
(* that follows it up to the next remote call.                               *)

\* texts given as detailed_prompt: of one chunk, and of several chunks with a
\* sentence break
Prompts == {<<"c">>, <<"a", "a", ".", " ", "b", "b", "b", "b">>}

\* the type options of the database
ValidTypes == {"T0", "T1"}

\* the arguments of a call
UpdateArgs ==
  [prompt_id : BOOLEAN,
   name : {Undefined, "n1"},
   type : {Undefined, "T1", "Tx"},
   tags : {Undefined, "g1"},
   detailed_prompt : {NoText} \cup Prompts]

\* hasUpdates
HasUpdates(a) ==
  a.name # Undefined \/ a.detailed_prompt # NoText \/ a.type # Undefined
    \/ a.tags # Undefined

\* Object.keys(properties).length > 0
HasProperties(a) == a.name # Undefined \/ a.type # Undefined \/ a.tags # Undefined

\* the page after pages.update({properties})
UpdatedProps(props, a) ==
  [Name |-> IF a.name # Undefined THEN a.name ELSE props.Name,
   Type |-> IF a.type # Undefined THEN a.type ELSE props.Type,
   Tags |-> IF a.tags # Undefined THEN a.tags ELSE props.Tags]

SuccessResult == [kind |-> "ok", isError |-> FALSE, text |-> "Prompt updated successfully"]

\* throw new McpError(ErrorCode.InvalidParams, msg)
InvalidParams(msg) == [kind |-> "McpError", isError |-> TRUE, text |-> msg]

\* a returned result with isError: true
UpdateError(msg) == [kind |-> "error", isError |-> TRUE, text |-> msg]

\* the result returned when no prompt book is active
NoBookResult == [kind |-> "no_book", isError |-> TRUE, text |-> NO_ACTIVE_PROMPT_BOOK]

\* one remote call of an invocation: what was called, on which block, and
\* whether it returned (ok) or threw
Call(op, block, ok) == [op |-> op, block |-> block, ok |-> ok]

\* the remote call an invocation at `pc` issues next
OpAt(pc) ==
  CASE pc = "retrieve" -> "pages.retrieve"
    [] pc = "dbRetrieve" -> "databases.retrieve"
    [] pc = "props" -> "pages.update"
    [] pc = "list" -> "blocks.children.list"
    [] pc = "delete" -> "blocks.delete"
    [] pc = "append" -> "blocks.children.append"

\* the block that call is about
TargetAt(u) == IF u.pc = "delete" THEN u.existingBlocks[u.idx + 1] ELSE PageId

\* where the handler goes once the content is to be written, if at all
ContentStep(a) == IF a.detailed_prompt # NoText THEN "list" ELSE "done"

\* where the handler goes once the type is accepted
PropsStep(a) == IF HasProperties(a) THEN "props" ELSE ContentStep(a)

\* mutant: the type is not checked against the options of the database
TypeStepUnchecked(a) == PropsStep(a)

\* where the handler goes once the page is retrieved
TypeStep(a) == IF a.type # Undefined THEN "dbRetrieve" ELSE PropsStep(a)

\* the result for a type that is not an option of the database
InvalidTypeResult == [kind |-> "invalid_type", isError |-> TRUE, text |-> "Error: Invalid type"]

\* mutant: the delete loop ends after its first iteration
DeleteStepOnce(existing, done) == "append"

\* the for loop over existingBlocks: `done` of them are deleted
DeleteStep(existing, done) == IF done < Len(existing) THEN "delete" ELSE "append"

\* the result once the handler has nothing more to do
ResultAt(pc, old) == IF pc = "done" THEN SuccessResult ELSE old

\* the ids of a sequence of blocks
IdsOf(children) == [k \in 1..Len(children) |-> children[k].id]

\* the remote deletes (archives) a block
RemoveBlock(children, id) == SelectSeq(children, LAMBDA b : b.id # id)

\* mutant: the appended blocks replace the children of the page
AppendBlocksReplacing(children, new, from) ==
  [k \in 1..Len(new) |->
     [id |-> from + k - 1, type |-> new[k].type, content |-> new[k].content]]

\* the remote appends new blocks, numbering them from `from`
AppendBlocks(children, new, from) ==
  children \o [k \in 1..Len(new) |->
                 [id |-> from + k - 1, type |-> new[k].type, content |-> new[k].content]]

\* invocation j changed the children of the page: every other invocation that
\* has begun has been interfered with
Interfere(u, j) ==
  [i \in Invocations |->
     IF i # j /\ u[i].pc # "idle" THEN [u[i] EXCEPT !.interfered = TRUE] ELSE u[i]]

UpdateInit ==
  /\ SplitIdle
  /\ ConfigIdle
  /\ AddIdle
  /\ CopyIdle
  /\ DecodeIdle
  /\ hasActiveBook \in BOOLEAN
  /\ remoteRecords = <<>>
  /\ allResults = <<>>
  /\ hasMore = TRUE
  /\ cursor = NoCursor
  /\ fetchPc = "idle"
  /\ toolResult = NoResult
  /\ requests = <<>>
  /\ responses = <<>>
  /\ failure = NoFailure
  /\ \E n \in 0..MaxOldBlocks :
       /\ pageChildren = [k \in 1..n |-> [id |-> k, type |-> "heading_1", content |-> <<"o">>]]
       /\ nextBlockId = n + 1
  /\ pageProps = [Name |-> "n0", Type |-> "T0", Tags |-> "g0"]
  /\ upd = [i \in Invocations |-> IdleInvocation]

\* the request handler found an active prompt book; prompt_id is missing, or
\* there is nothing to update: McpError(InvalidParams)
UpdInvalid(i) ==
  /\ upd[i].pc = "idle"
  /\ hasActiveBook
  /\ \E a \in UpdateArgs :
       /\ ~a.prompt_id \/ ~HasUpdates(a)
       /\ upd' = [upd EXCEPT ![i].pc = "done", ![i].args = a,
                    ![i].result = InvalidParams(IF ~a.prompt_id
                                                THEN "Prompt ID is required"
                                                ELSE "At least one update parameter must be provided")]
  /\ UNCHANGED <<pageChildren, pageProps, nextBlockId>>
  /\ UNCHANGED notUpdate

\* no active prompt book: the request handler returns the error result
\* before it calls updatePrompt, whatever the arguments
UpdNoBook(i) ==
  /\ upd[i].pc = "idle"
  /\ ~hasActiveBook
  /\ \E a \in UpdateArgs :
       /\ upd' = [upd EXCEPT ![i].pc = "done", ![i].args = a,
                    ![i].result = NoBookResult]
  /\ UNCHANGED <<pageChildren, pageProps, nextBlockId>>
  /\ UNCHANGED notUpdate

\* the call passes the checks and is about to retrieve the page
UpdBegin(i) ==
  /\ upd[i].pc = "idle"
  /\ hasActiveBook
  /\ \E a \in UpdateArgs :
       /\ a.prompt_id /\ HasUpdates(a)
       /\ upd' = [upd EXCEPT ![i].pc = "retrieve", ![i].args = a,
                    ![i].before = IdsOf(pageChildren)]
  /\ UNCHANGED <<pageChildren, pageProps, nextBlockId>>
  /\ UNCHANGED notUpdate

\* pages.retrieve succeeds
UpdRetrieve(i) ==
  /\ upd[i].pc = "retrieve"
  /\ upd' = [upd EXCEPT ![i].pc = TypeStep(upd[i].args),
               ![i].calls = Append(@, Call("pages.retrieve", PageId, TRUE)),
               ![i].result = ResultAt(TypeStep(upd[i].args), @)]
  /\ UNCHANGED <<pageChildren, pageProps, nextBlockId>>
  /\ UNCHANGED notUpdate

\* messages pages.retrieve can throw with: the page does not exist, or the
\* remote could not serve the request
RetrieveErrors == {"Could not find page", "rate limited"}

\* the inner catch of updatePrompt: the answer does not depend on the error
NotFoundResult(msg) ==
  [kind |-> "not_found", isError |-> TRUE, text |-> "Error: Prompt with ID not found."]

\* pages.retrieve throws, whatever the error: the inner catch answers
\* "not found"
UpdRetrieveFails(i) ==
  /\ upd[i].pc = "retrieve"
  /\ \E msg \in RetrieveErrors :
       upd' = [upd EXCEPT ![i].pc = "done",
                 ![i].calls = Append(@, Call("pages.retrieve", PageId, FALSE)),
                 ![i].thrown = msg,
                 ![i].result = NotFoundResult(msg)]
  /\ UNCHANGED <<pageChildren, pageProps, nextBlockId>>
  /\ UNCHANGED notUpdate

\* databases.retrieve succeeds: the type is checked against the options
UpdDbRetrieve(i) ==
  /\ upd[i].pc = "dbRetrieve"
  /\ LET a == upd[i].args
         next == IF a.type \in ValidTypes THEN PropsStep(a) ELSE "done"
     IN upd' = [upd EXCEPT ![i].pc = next,
                  ![i].calls = Append(@, Call("databases.retrieve", PageId, TRUE)),
                  ![i].result = IF a.type \in ValidTypes
                                THEN ResultAt(next, @)
                                ELSE InvalidTypeResult]
  /\ UNCHANGED <<pageChildren, pageProps, nextBlockId>>
  /\ UNCHANGED notUpdate

\* pages.update succeeds
UpdProps(i) ==
  /\ upd[i].pc = "props"
  /\ pageProps' = UpdatedProps(pageProps, upd[i].args)
  /\ upd' = [upd EXCEPT ![i].pc = ContentStep(upd[i].args),
               ![i].calls = Append(@, Call("pages.update", PageId, TRUE)),
               ![i].result = ResultAt(ContentStep(upd[i].args), @)]
  /\ UNCHANGED <<pageChildren, nextBlockId>>
  /\ UNCHANGED notUpdate

\* fetchAllBlocks(promptId) returns the children the page has now
UpdList(i) ==
  /\ upd[i].pc = "list"
  /\ LET existing == FetchLoop(IdsOf(pageChildren), NoCursor, <<>>)
     IN upd' = [upd EXCEPT ![i].pc = DeleteStep(existing, 0),
                  ![i].existingBlocks = existing,
                  ![i].idx = 0,
                  ![i].calls = Append(@, Call("blocks.children.list", PageId, TRUE))]
  /\ UNCHANGED <<pageChildren, pageProps, nextBlockId>>
  /\ UNCHANGED notUpdate

\* blocks.delete of the next existing block succeeds
UpdDelete(i) ==
  /\ upd[i].pc = "delete"
  /\ LET id == upd[i].existingBlocks[upd[i].idx + 1]
     IN /\ pageChildren' = RemoveBlock(pageChildren, id)
        /\ upd' = [Interfere(upd, i) EXCEPT
                     ![i].pc = DeleteStep(upd[i].existingBlocks, upd[i].idx + 1),
                     ![i].idx = @ + 1,
                     ![i].calls = Append(@, Call("blocks.delete", id, TRUE))]
  /\ UNCHANGED <<pageProps, nextBlockId>>
  /\ UNCHANGED notUpdate

\* blocks.children.append of the new paragraph blocks succeeds; the handler
\* returns success
UpdAppend(i) ==
  /\ upd[i].pc = "append"
  /\ LET new == createParagraphBlocksFromText(upd[i].args.detailed_prompt)
     IN /\ pageChildren' = AppendBlocks(pageChildren, new, nextBlockId)
        /\ nextBlockId' = nextBlockId + Len(new)
  /\ upd' = [Interfere(upd, i) EXCEPT ![i].pc = "done",
               ![i].calls = Append(@, Call("blocks.children.append", PageId, TRUE)),
               ![i].appended = nextBlockId..(nextBlockId + Len(createParagraphBlocksFromText(upd[i].args.detailed_prompt)) - 1),
               ![i].result = SuccessResult]
  /\ UNCHANGED pageProps
  /\ UNCHANGED notUpdate

\* mutant: the handler tries the failed call again
FailStepRetry(pc) == pc

\* the outer catch returns: the handler issues nothing after a failed call
FailStep(pc) == "done"

\* any remote call after the page retrieval throws: the outer catch answers
\* with the error, and nothing is undone
UpdRemoteFails(i) ==
  /\ upd[i].pc \in {"dbRetrieve", "props", "list", "delete", "append"}
  /\ \E msg \in RemoteErrors :
       upd' = [upd EXCEPT ![i].pc = FailStep(upd[i].pc),
                 ![i].calls = Append(@, Call(OpAt(upd[i].pc), TargetAt(upd[i]), FALSE)),
                 ![i].thrown = msg,
                 ![i].result = UpdateError(ErrorText("Error updating prompt: ", msg))]
  /\ UNCHANGED <<pageChildren, pageProps, nextBlockId>>
  /\ UNCHANGED notUpdate

UpdateNext ==
  \E i \in Invocations :
    \/ UpdInvalid(i)
    \/ UpdNoBook(i)
    \/ UpdBegin(i)
    \/ UpdRetrieve(i)
    \/ UpdRetrieveFails(i)
    \/ UpdDbRetrieve(i)
    \/ UpdProps(i)
    \/ UpdList(i)
    \/ UpdDelete(i)
    \/ UpdAppend(i)
    \/ UpdRemoteFails(i)

SpecUpdate == UpdateInit /\ [][UpdateNext]_vars

----------------------------------------------------------------------------
(* The prompt book configuration: this.config, the configuration file,      *)
(* this.activePromptBook and this.notion. The server state is handled as a  *)
(* record s so that loadConfig, setActivePromptBook and saveConfig compose  *)
(* as they do in the code.                                                  *)

BookNames == {"n1", "n2"}
Tokens == {"tokA", "tokB"}
BookIds == 1..MaxBooks

\* the name and notion_token given when a prompt book is created
BookArgs == {[name |-> "n1", notion_token |-> "tokA"],
             [name |-> "n2", notion_token |-> "tokB"]}

\* new Client({ auth: token })
Client(token) == [auth |-> token]

\* the server state as one record
Server ==
  [config |-> config, file |-> configFile, active |-> activePromptBook, notion |-> notion]

\* mutant: an id that matches no prompt book finds the last one
FindIndexLast(books, id) ==
  IF \E k \in 1..Len(books) : books[k].id = id
  THEN CHOOSE k \in 1..Len(books) : books[k].id = id /\ \A m \in 1..(k - 1) : books[m].id # id
  ELSE Len(books)

\* promptBooks.findIndex(pb => pb.id === id), 0 for -1
FindIndex(books, id) ==
  IF \E k \in 1..Len(books) : books[k].id = id
  THEN CHOOSE k \in 1..Len(books) : books[k].id = id /\ \A m \in 1..(k - 1) : books[m].id # id
  ELSE 0

\* saveConfig()
saveConfig(s) == [s EXCEPT !.file = s.config]

\* setActivePromptBook(promptBookId)
setActivePromptBook(s, id) ==
  LET k == FindIndex(s.config.promptBooks, id)
  IN IF k = 0
     THEN [s EXCEPT !.active = NoBook, !.notion = NoClient]
     ELSE saveConfig([s EXCEPT !.active = s.config.promptBooks[k],
                               !.notion = Client(s.config.promptBooks[k].notion_token),
                               !.config.activePromptBookId = id])

\* loadConfig(): the file exists and parses
loadConfig(s) ==
  LET loaded == [s EXCEPT !.config = s.file]
  IN IF s.file.activePromptBookId # NoBookId
     THEN setActivePromptBook(loaded, s.file.activePromptBookId)
     ELSE loaded

\* this.config.promptBooks.push(newPromptBook)
PushBook(s, book) == [s EXCEPT !.config.promptBooks = Append(@, book)]

\* promptBooks.splice(index, 1)
Splice(books, k) == [m \in 1..(Len(books) - 1) |-> IF m < k THEN books[m] ELSE books[m + 1]]

\* mutant: removing the active prompt book leaves it active
ClearIfActiveNever(s, id) == s

\* removePromptBookConfig: if the removed prompt book was active, clear it
ClearIfActive(s, id) ==
  IF s.config.activePromptBookId = id
  THEN [s EXCEPT !.config.activePromptBookId = NoBookId, !.active = NoBook,
                 !.notion = NoClient]
  ELSE s

\* the server state becomes s
Becomes(s) ==
  /\ config' = s.config
  /\ configFile' = s.file
  /\ activePromptBook' = s.active
  /\ notion' = s.notion

\* the result of a configuration tool: error result or success
ConfigResult(kind) == [tool |-> "config", kind |-> kind, books |-> <<>>]

\* listPromptBooks: id, name and is_active of every prompt book
BookList(cfg) ==
  [k \in 1..Len(cfg.promptBooks) |->
     [id |-> cfg.promptBooks[k].id, name |-> cfg.promptBooks[k].name,
      is_active |-> (cfg.activePromptBookId = cfg.promptBooks[k].id)]]

\* mutant: every added prompt book is taken to be the first
IsFirstPromptBookAlways(books) == TRUE

\* createPromptBookConfig: "If this is the first prompt book"
IsFirstPromptBook(books) == Len(books) = 1

CreatePromptBookConfig ==
  /\ nextBookId <= MaxBooks
  /\ \E a \in BookArgs :
       LET book == [id |-> nextBookId, name |-> a.name, notion_token |-> a.notion_token,
                    notion_database_id |-> "db"]
           pushed == PushBook(loadConfig(Server), book)
           first == IF IsFirstPromptBook(pushed.config.promptBooks)
                    THEN setActivePromptBook(
                           [pushed EXCEPT !.config.activePromptBookId = book.id], book.id)
                    ELSE pushed
       IN Becomes(saveConfig(first))
  /\ nextBookId' = nextBookId + 1
  /\ configResult' = ConfigResult("ok")
  /\ UNCHANGED <<dbJob, job>>
  /\ UNCHANGED notConfig

\* remove_prompt_book_config called with id
RemovePromptBookConfigOf(id) ==
  /\ LET s == loadConfig(Server)
         k == FindIndex(s.config.promptBooks, id)
     IN IF k = 0
        THEN /\ Becomes(s)
             /\ configResult' = ConfigResult("error")
        ELSE /\ Becomes(saveConfig(ClearIfActive(
                   [s EXCEPT !.config.promptBooks = Splice(@, k)], id)))
             /\ configResult' = ConfigResult("ok")
  /\ UNCHANGED <<nextBookId, dbJob, job>>
  /\ UNCHANGED notConfig

RemovePromptBookConfig == \E id \in BookIds : RemovePromptBookConfigOf(id)

\* activate_prompt_book called with id
ActivatePromptBookOf(id) ==
  /\ LET s == loadConfig(Server)
         k == FindIndex(s.config.promptBooks, id)
     IN IF k = 0
        THEN /\ Becomes(s)
             /\ configResult' = ConfigResult("error")
        ELSE /\ Becomes(setActivePromptBook(s, id))
             /\ configResult' = ConfigResult("ok")
  /\ UNCHANGED <<nextBookId, dbJob, job>>
  /\ UNCHANGED notConfig

ActivatePromptBook == \E id \in BookIds : ActivatePromptBookOf(id)

ListPromptBooks ==
  /\ LET s == loadConfig(Server)
     IN /\ Becomes(s)
        /\ configResult' = [tool |-> "list_prompt_books", kind |-> "ok",
                            books |-> BookList(s.config)]
  /\ UNCHANGED <<nextBookId, dbJob, job>>
  /\ UNCHANGED notConfig

\* rename_prompt_book called with id and new_name
RenamePromptBookOf(id, name) ==
  /\ LET s == loadConfig(Server)
         k == FindIndex(s.config.promptBooks, id)
     IN IF k = 0
        THEN /\ Becomes(s)
             /\ configResult' = ConfigResult("error")
        ELSE \* the active prompt book is the same object as its entry
             /\ Becomes(saveConfig(
                  [s EXCEPT !.config.promptBooks[k].name = name,
                            !.active = IF s.active.id = id /\ s.config.activePromptBookId = id
                                       THEN [@ EXCEPT !.name = name] ELSE @]))
             /\ configResult' = ConfigResult("ok")
  /\ UNCHANGED <<nextBookId, dbJob, job>>
  /\ UNCHANGED notConfig

RenamePromptBook == \E id \in BookIds, name \in BookNames : RenamePromptBookOf(id, name)

\* create_prompt_database up to its await of databases.create
CreatePromptDatabaseCall ==
  /\ dbJob.pc = "idle"
  /\ nextBookId <= MaxBooks
  /\ \E a \in BookArgs, activate \in BOOLEAN :
       dbJob' = [pc |-> "creating", name |-> a.name, notion_token |-> a.notion_token,
                 activate |-> activate]
  /\ Becomes(loadConfig(Server))
  /\ UNCHANGED <<nextBookId, configResult, job>>
  /\ UNCHANGED notConfig

\* databases.create resolves: the new prompt book is added
CreatePromptDatabaseReturn ==
  /\ dbJob.pc = "creating"
  /\ nextBookId <= MaxBooks
  /\ LET book == [id |-> nextBookId, name |-> dbJob.name,
                  notion_token |-> dbJob.notion_token, notion_database_id |-> "dbNew"]
         pushed == PushBook(Server, book)
         activated == IF dbJob.activate
                      THEN setActivePromptBook(
                             [pushed EXCEPT !.config.activePromptBookId = book.id], book.id)
                      ELSE pushed
     IN Becomes(saveConfig(activated))
  /\ nextBookId' = nextBookId + 1
  /\ dbJob' = IdleDbJob
  /\ configResult' = ConfigResult("ok")
  /\ UNCHANGED job
  /\ UNCHANGED notConfig

\* databases.create rejects: the catch returns an error result
CreatePromptDatabaseFails ==
  /\ dbJob.pc = "creating"
  /\ dbJob' = IdleDbJob
  /\ configResult' = ConfigResult("error")
  /\ UNCHANGED <<config, configFile, activePromptBook, notion, nextBookId, job>>
  /\ UNCHANGED notConfig

\* the tools the request handler dispatches only after its active prompt
\* book check
PromptTools ==
  {"list_prompts", "search_prompts_by_title", "get_prompts_by_tag",
   "get_prompts_by_type", "read_prompt", "list_all_types", "list_all_tags",
   "add_prompt", "update_prompt"}

\* the prompt tools without a required input
NoInputTools == {"list_prompts", "list_all_types", "list_all_tags"}

\* n copies of op
Repeat(op, n) == [k \in 1..n |-> op]

\* the remote calls of a prompt tool, in the order it awaits them; n is the
\* number of pages or blocks the remote has for it
JobPlan(tool, n) ==
  CASE tool = "read_prompt" -> <<"pages.retrieve">> \o Repeat("blocks.children.list", n)
    [] tool = "update_prompt" ->
         <<"pages.retrieve", "blocks.children.list">> \o Repeat("blocks.delete", n)
           \o <<"blocks.children.append">>
    [] tool \in {"list_prompts", "search_prompts_by_title", "get_prompts_by_tag",
                 "get_prompts_by_type"} -> Repeat("databases.query", n)
    [] tool \in {"list_all_types", "list_all_tags"} -> <<"databases.retrieve">>
    [] tool = "add_prompt" -> <<"databases.retrieve", "pages.create">>

\* the tools the request handler calls before its active prompt book check
ConfigTools == {"create_prompt_book_config", "remove_prompt_book_config",
                "activate_prompt_book", "rename_prompt_book",
                "create_prompt_database", "copy_prompt"}

\* mutant: every tool checks its inputs before the active prompt book
DispatchValidatingFirst(s, tool, complete) ==
  IF ~complete THEN "invalid"
  ELSE IF s.active = NoBook \/ s.notion = NoClient THEN "no_book"
  ELSE "run"

\* the request handler calls a configuration tool at once; for the other
\* tools it checks the active prompt book first; the tool called checks its
\* required inputs before anything else
Dispatch(s, tool, complete) ==
  IF tool \notin ConfigTools /\ (s.active = NoBook \/ s.notion = NoClient) THEN "no_book"
  ELSE IF ~complete THEN "invalid"
  ELSE "run"

\* mutant: the client is taken once, when the invocation starts
ClientAtStart(s, started) == started

\* the client a remote call is made with: this.notion, read at the call
ClientAt(s, started) == s.notion

\* a prompt tool is called, or any tool without one of its required inputs;
\* `complete` says whether the required inputs are all given
JobStart ==
  /\ job.pc = "idle"
  /\ \E tool \in PromptTools \cup ConfigTools, complete \in BOOLEAN, n \in 1..MaxJobCalls :
       /\ tool \in ConfigTools => ~complete /\ n = 1
       /\ tool \in NoInputTools => complete
       /\ LET d == Dispatch(Server, tool, complete)
          IN job' = [pc |-> IF d = "run" THEN "call" ELSE "done",
                     tool |-> tool,
                     complete |-> complete,
                     plan |-> IF d = "run" THEN JobPlan(tool, n) ELSE <<>>,
                     started |-> notion,
                     result |-> CASE d = "run" -> NoResult
                                  [] d = "invalid" -> InvalidParams("required input missing")
                                  [] d = "no_book" -> NoBookResult,
                     calls |-> <<>>]
  /\ UNCHANGED <<config, configFile, activePromptBook, notion, nextBookId,
                 configResult, dbJob>>
  /\ UNCHANGED notConfig

\* the invocation makes its next remote call and the call resolves; with
\* this.notion null the call throws before anything is sent and the catch of
\* the tool returns an error result
JobCall ==
  /\ job.pc = "call"
  /\ LET c == ClientAt(Server, job.started)
         op == job.plan[Len(job.calls) + 1]
     IN IF c = NoClient
        THEN job' = [job EXCEPT !.pc = "done",
                       !.result = UpdateError("Notion client not initialized")]
        ELSE job' = [job EXCEPT
                       !.pc = IF Len(job.calls) + 1 = Len(job.plan) THEN "done" ELSE "call",
                       !.calls = Append(@, [op |-> op, client |-> c]),
                       !.result = IF Len(job.calls) + 1 = Len(job.plan)
                                  THEN [kind |-> "ok", isError |-> FALSE, text |-> job.tool]
                                  ELSE @]
  /\ UNCHANGED <<config, configFile, activePromptBook, notion, nextBookId,
                 configResult, dbJob>>
  /\ UNCHANGED notConfig

ConfigInit ==
  /\ SplitIdle
  /\ DecodeIdle
  /\ FetchIdle
  /\ UpdateIdle
  /\ ConfigIdle
  /\ AddIdle
  /\ CopyIdle

ConfigNext ==
  \/ CreatePromptBookConfig
  \/ RemovePromptBookConfig
  \/ ActivatePromptBook
  \/ ListPromptBooks
  \/ RenamePromptBook
  \/ CreatePromptDatabaseCall
  \/ CreatePromptDatabaseReturn
  \/ CreatePromptDatabaseFails

SpecConfig == ConfigInit /\ [][ConfigNext]_vars

\* prompt tool invocations, with the configuration tools that change the
\* active prompt book running at their suspension points
ToolsNext ==
  \/ CreatePromptBookConfig
  \/ RemovePromptBookConfig
  \/ ActivatePromptBook
  \/ JobStart
  \/ JobCall

SpecTools == ConfigInit /\ [][ToolsNext]_vars

----------------------------------------------------------------------------
(* add_prompt. A step is one remote call together with the local code that  *)
(* follows it up to the next remote call.                                   *)

\* the arguments of a call: two types the database has, two it lacks
AddArgs ==
  [name : {Undefined, "p1"},
   detailed_prompt : {NoText, <<"c">>},
   type : {Undefined, "T0", "Tx", "Ty"},
   tags : {Undefined, "g1"},
   allow_new_type : {Undefined, "true", "false"}]

\* the checks of the required inputs pass
AddComplete(a) ==
  a.name # Undefined /\ a.detailed_prompt # NoText /\ a.type # Undefined

\* the page pages.create creates
NewPage(a) ==
  [name |-> a.name, type |-> a.type, tags |-> a.tags,
   children |-> createParagraphBlocksFromText(a.detailed_prompt)]



\* if (!validTypes.includes(type)): the type is added to the schema,
\* whatever allow_new_type is
AddTypeStep(validTypes, a) ==
  IF a.type \in validTypes THEN "create" ELSE "schema"

AddInit ==
  /\ SplitIdle
  /\ DecodeIdle
  /\ UpdateIdle
  /\ ConfigIdle
  /\ hasActiveBook \in BOOLEAN
  /\ remoteRecords = <<>>
  /\ allResults = <<>>
  /\ hasMore = TRUE
  /\ cursor = NoCursor
  /\ fetchPc = "idle"
  /\ toolResult = NoResult
  /\ requests = <<>>
  /\ responses = <<>>
  /\ failure = NoFailure
  /\ AddIdle
  /\ CopyIdle

\* no active prompt book: the request handler returns the error result
AddNoBook ==
  /\ add.pc = "idle"
  /\ ~hasActiveBook
  /\ \E a \in AddArgs :
       add' = [IdleAdd EXCEPT !.pc = "done", !.args = a,
                 !.typesBefore = dbTypes, !.promptsBefore = dbPrompts,
                 !.result = NoBookResult]
  /\ UNCHANGED <<dbTypes, dbPrompts>>
  /\ UNCHANGED notAdd

\* name, detailed_prompt or type is missing: McpError(InvalidParams)
AddInvalid ==
  /\ add.pc = "idle"
  /\ hasActiveBook
  /\ \E a \in AddArgs :
       /\ ~AddComplete(a)
       /\ add' = [IdleAdd EXCEPT !.pc = "done", !.args = a,
                    !.typesBefore = dbTypes, !.promptsBefore = dbPrompts,
                    !.result = InvalidParams("required input missing")]
  /\ UNCHANGED <<dbTypes, dbPrompts>>
  /\ UNCHANGED notAdd

\* the call passes the checks and is about to retrieve the database
AddBegin ==
  /\ add.pc = "idle"
  /\ hasActiveBook
  /\ Len(dbPrompts) < MaxPrompts
  /\ \E a \in AddArgs :
       /\ AddComplete(a)
       /\ add' = [IdleAdd EXCEPT !.pc = "dbRetrieve", !.args = a,
                    !.typesBefore = dbTypes, !.promptsBefore = dbPrompts]
  /\ UNCHANGED <<dbTypes, dbPrompts>>
  /\ UNCHANGED notAdd

\* databases.retrieve resolves: the type is looked up in the options
AddDbRetrieve ==
  /\ add.pc = "dbRetrieve"
  /\ add' = [add EXCEPT !.pc = AddTypeStep(dbTypes, add.args),
               !.calls = Append(@, Call("databases.retrieve", PageId, TRUE))]
  /\ UNCHANGED <<dbTypes, dbPrompts>>
  /\ UNCHANGED notAdd



\* databases.update resolves: the schema has the new type option
AddSchemaUpdate ==
  /\ add.pc = "schema"
  /\ dbTypes' = dbTypes \cup {add.args.type}
  /\ add' = [add EXCEPT !.pc = "create",
               !.calls = Append(@, Call("databases.update", PageId, TRUE))]
  /\ UNCHANGED dbPrompts
  /\ UNCHANGED notAdd

\* databases.update rejects: the inner catch returns an error result
AddSchemaFails ==
  /\ add.pc = "schema"
  /\ \E msg \in RemoteErrors :
       add' = [add EXCEPT !.pc = "done",
                 !.calls = Append(@, Call("databases.update", PageId, FALSE)),
                 !.result = UpdateError(<<"Error adding new type to database schema: ", msg>>)]
  /\ UNCHANGED <<dbTypes, dbPrompts>>
  /\ UNCHANGED notAdd

\* pages.create resolves: the prompt is in the database
AddCreate ==
  /\ add.pc = "create"
  /\ dbPrompts' = Append(dbPrompts, NewPage(add.args))
  /\ add' = [add EXCEPT !.pc = "done",
               !.calls = Append(@, Call("pages.create", PageId, TRUE)),
               !.result = [kind |-> "ok", isError |-> FALSE,
                           text |-> "Prompt added successfully"]]
  /\ UNCHANGED dbTypes
  /\ UNCHANGED notAdd

\* databases.retrieve or pages.create rejects: the outer catch returns an
\* error result
AddRemoteFails ==
  /\ add.pc \in {"dbRetrieve", "create"}
  /\ \E msg \in RemoteErrors :
       add' = [add EXCEPT !.pc = "done",
                 !.calls = Append(@, Call(IF add.pc = "create" THEN "pages.create"
                                          ELSE "databases.retrieve", PageId, FALSE)),
                 !.result = UpdateError(ErrorText("Error adding prompt: ", msg))]
  /\ UNCHANGED <<dbTypes, dbPrompts>>
  /\ UNCHANGED notAdd

\* the next add_prompt call can be made
AddAgain ==
  /\ add.pc = "done"
  /\ add' = IdleAdd
  /\ UNCHANGED <<dbTypes, dbPrompts>>
  /\ UNCHANGED notAdd

AddNext ==
  \/ AddNoBook
  \/ AddInvalid
  \/ AddBegin
  \/ AddDbRetrieve
  \/ AddSchemaUpdate
  \/ AddSchemaFails
  \/ AddCreate
  \/ AddRemoteFails
  \/ AddAgain

SpecAdd == AddInit /\ [][AddNext]_vars

----------------------------------------------------------------------------
(* copy_prompt and read_prompt on pages made of childless paragraph blocks.  *)
(* The remote returns as plain_text the content a block was created with.    *)

\* characters of the paragraphs: a letter and the newline
ParagraphChars == {"a", "\n"}

\* the childless paragraph blocks a source page is made of
ParagraphBlocks ==
  {[type |-> "paragraph", content |-> t] :
     t \in SeqsUpTo(ParagraphChars, MaxParagraphLen)}

RECURSIVE Indent(_)
\* '  '.repeat(indentLevel)
Indent(indentLevel) ==
  IF indentLevel = 0 THEN <<>> ELSE <<" ", " ">> \o Indent(indentLevel - 1)

\* content += `${indent}${text}\n\n` for a paragraph block
ParagraphContent(block, indent) == indent \o block.content \o <<"\n", "\n">>

RECURSIVE extractContentFromBlocks_paragraphs(_, _)
\* extractContentFromBlocks over blocks that are childless paragraphs
extractContentFromBlocks_paragraphs(blocks, indentLevel) ==
  IF blocks = <<>> THEN <<>>
  ELSE ParagraphContent(Head(blocks), Indent(indentLevel))
         \o extractContentFromBlocks_paragraphs(Tail(blocks), indentLevel)

RECURSIVE extractContentFromBlocksWithClient_paragraphs(_, _)
\* extractContentFromBlocksWithClient over blocks that are childless paragraphs
extractContentFromBlocksWithClient_paragraphs(blocks, indentLevel) ==
  IF blocks = <<>> THEN <<>>
  ELSE ParagraphContent(Head(blocks), Indent(indentLevel))
         \o extractContentFromBlocksWithClient_paragraphs(Tail(blocks), indentLevel)

\* the blocks under a page
BlocksOf(page) == IF page = "source" THEN sourcePage ELSE copiedPage

\* the pages read_prompt can be called on
ExistingPages == IF copy.pc = "done" THEN {"source", "copy"} ELSE {"source"}

CopyInit ==
  /\ SplitIdle
  /\ FetchIdle
  /\ DecodeIdle
  /\ UpdateIdle
  /\ ConfigIdle
  /\ AddIdle
  /\ sourcePage \in SeqsUpTo(ParagraphBlocks, MaxParagraphs)
  /\ copiedPage = <<>>
  /\ copy = IdleCopy
  /\ reads = {}
  /\ decodes = <<>>

\* the arguments are given and both books are found: the clients are created
CopyBegin ==
  /\ copy.pc = "idle"
  /\ copy' = [copy EXCEPT !.pc = "retrieve"]
  /\ UNCHANGED <<sourcePage, copiedPage, reads>>
  /\ UNCHANGED notCopy

\* sourceNotion.pages.retrieve and extractPageInfo
CopyRetrieve ==
  /\ copy.pc = "retrieve"
  /\ copy' = [copy EXCEPT !.pc = "fetch"]
  /\ UNCHANGED <<sourcePage, copiedPage, reads>>
  /\ UNCHANGED notCopy

\* fetchAllBlocksWithClient, then extractContentFromBlocksWithClient, which
\* makes no remote call for childless blocks
CopyFetch ==
  /\ copy.pc = "fetch"
  /\ copy' = [copy EXCEPT !.pc = "create",
                          !.allBlocks = sourcePage,
                          !.content =
                            extractContentFromBlocksWithClient_paragraphs(sourcePage, 0)]
  /\ UNCHANGED <<sourcePage, copiedPage, reads>>
  /\ UNCHANGED notCopy

\* destinationNotion.pages.create with the children made from the content
CopyCreate ==
  /\ copy.pc = "create"
  /\ copiedPage' = createParagraphBlocksFromText(copy.content)
  /\ copy' = [copy EXCEPT !.pc = "done"]
  /\ UNCHANGED <<sourcePage, reads>>
  /\ UNCHANGED notCopy

\* a remote call throws: the catch returns the error and nothing is created
CopyRemoteFails ==
  /\ copy.pc \in {"retrieve", "fetch", "create"}
  /\ copy' = [copy EXCEPT !.pc = "failed"]
  /\ UNCHANGED <<sourcePage, copiedPage, reads>>
  /\ UNCHANGED notCopy

\* read_prompt of a page: pages.retrieve, fetchAllBlocks and
\* extractContentFromBlocks; the text is returned as extracted
ReadPromptOfPage ==
  /\ \E page \in ExistingPages :
       reads' = reads \cup
         {[page |-> page,
           text |-> extractContentFromBlocks_paragraphs(BlocksOf(page), 0)]}
  /\ UNCHANGED <<sourcePage, copiedPage, copy>>
  /\ UNCHANGED notCopy

CopyNext ==
  \/ CopyBegin
  \/ CopyRetrieve
  \/ CopyFetch
  \/ CopyCreate
  \/ CopyRemoteFails
  \/ ReadPromptOfPage

SpecCopy == CopyInit /\ [][CopyNext]_vars

----------------------------------------------------------------------------
(* Claims about splitTextIntoChunks, checked under SpecSplit *)

\* C1: the chunks returned by splitTextIntoChunks(s, m), concatenated in
\* order, are exactly s; inside the loop the chunks pushed so far followed by
\* the remaining text are s, so nothing is dropped, duplicated or reordered.
C1_ChunkRoundTrip ==
  /\ splitPc = "loop" => Concat(chunks) \o remainingText = text
  /\ splitPc = "done" => Concat(chunks) = text

\* a finished split of several chunks whose first cut was taken at a
\* delimiter before the hard limit
C1_Witness ==
  /\ splitPc = "done"
  /\ Len(chunks) >= 2
  /\ Len(chunks[1]) < maxLength

\* C2: every chunk returned by splitTextIntoChunks(s, m) has length at most m.
C2_ChunkBound ==
  \A i \in 1..Len(chunks) : Len(chunks[i]) <= maxLength

\* the indexes in (m/2, m] at which pat starts in rem
StartsInWindow(rem, pat, m) ==
  {i \in 0..(Len(rem) - Len(pat)) :
     /\ 2 * i > m
     /\ i <= m
     /\ SubSeq(rem, i + 1, i + Len(pat)) = pat}

\* the sentence terminators
SentenceEnds == {<<".", " ">>, <<"!", " ">>, <<"?", " ">>}

\* where the cut of rem belongs: after the last paragraph break of the
\* window, else after its last sentence terminator, else after its last
\* space, else at m
CutPlace(rem, m) ==
  LET paragraphs == StartsInWindow(rem, <<"\n", "\n">>, m)
      sentences == UNION {StartsInWindow(rem, e, m) : e \in SentenceEnds}
      spaces == StartsInWindow(rem, <<" ">>, m)
  IN IF paragraphs # {} THEN MaxOfSet(paragraphs) + 2
     ELSE IF sentences # {} THEN MaxOfSet(sentences) + 2
     ELSE IF spaces # {} THEN MaxOfSet(spaces) + 1
     ELSE m

\* what was left of the text when chunk k was taken
RemainingAt(k) ==
  Concat(SubSeq(chunks, k, Len(chunks)))
    \o (IF splitPc = "loop" THEN remainingText ELSE <<>>)

\* the chunks that were cut from a remaining text longer than maxLength
CutChunks == {k \in 1..Len(chunks) : Len(RemainingAt(k)) > maxLength}

\* C22: a chunk cut from a remaining text longer than m ends immediately
\* after the last double newline starting at an index in (m/2, m], else after
\* the last sentence terminator starting there, else after the last space
\* there, else at exactly m; the text from the cut on is what remains, so the
\* delimiter lies wholly in the chunk before the cut.
C22_CutPlacement ==
  \A k \in CutChunks :
    /\ Len(chunks[k]) = CutPlace(RemainingAt(k), maxLength)
    /\ chunks[k] = SubSeq(RemainingAt(k), 1, Len(chunks[k]))
    /\ SubstringFrom(RemainingAt(k), Len(chunks[k])) =
         (IF k < Len(chunks) THEN RemainingAt(k + 1)
          ELSE IF splitPc = "loop" THEN remainingText ELSE <<>>)

\* a finished split whose first cut followed a double newline starting at
\* index maxLength and whose second cut followed a space
C22_Witness ==
  /\ splitPc = "done"
  /\ Len(chunks) >= 3
  /\ {1, 2} \subseteq CutChunks
  /\ Len(chunks[1]) = maxLength + 2
  /\ SubSeq(chunks[1], maxLength + 1, maxLength + 2) = <<"\n", "\n">>
  /\ chunks[2][Len(chunks[2])] = " "

\* the claims of C28 that hold in every state: chunks are never empty, a
\* chunk cut from a longer remaining text is longer than m/2 and shortens
\* what remains, and a text no longer than m is returned as the one chunk
C28_ChunkSizes ==
  /\ Len(text) > maxLength =>
       /\ \A k \in 1..Len(chunks) : Len(chunks[k]) >= 1
       /\ \A k \in CutChunks : 2 * Len(chunks[k]) > maxLength
       /\ \A k \in 1..Len(chunks) :
            (k < Len(chunks) \/ splitPc = "loop") => k \in CutChunks
  /\ (splitPc = "done" /\ Len(text) <= maxLength) => chunks = <<text>>
  /\ splitPc = "done" => Len(chunks) >= 1

\* C28: for every text s and every m >= 1, splitTextIntoChunks(s, m)
\* terminates; when s is longer than m every chunk is non-empty and every
\* chunk except the last is longer than m/2; when s is no longer than m, the
\* empty text included, the result is the single chunk s, so there is always
\* at least one chunk.
C28_Terminates == []C28_ChunkSizes /\ <>(splitPc = "done")

\* a finished split of a longer text into three chunks, the first of them
\* cut after a space
C28_Witness ==
  /\ splitPc = "done"
  /\ Len(text) > maxLength
  /\ Len(chunks) >= 3
  /\ chunks[1][Len(chunks[1])] = " "

\* C23 as stated: a text 2.25 times as long as the limit is split into
\* exactly 3 chunks wherever its delimiters fall.
C23_ExactlyThree ==
  splitPc = "done" => Len(chunks) = 3

\* C23, amended: such a text is split into 3 or 4 chunks; into 3 whenever
\* the first two chunks leave no more than the limit, as they do when both
\* are cut at the limit or after a delimiter next to it.
C23_ThreeOrFour ==
  splitPc = "done" =>
    /\ Len(chunks) \in {3, 4}
    /\ Len(text) - (Len(chunks[1]) + Len(chunks[2])) <= maxLength
         => Len(chunks) = 3

\* a finished split into 4 chunks, the first two cut after delimiters in the
\* first half of the window's trailing half
C23_Witness ==
  /\ splitPc = "done"
  /\ Len(text) = ScenarioLength(maxLength)
  /\ Len(chunks) = 4
  /\ Len(chunks[1]) < maxLength
  /\ Len(chunks[2]) < maxLength

----------------------------------------------------------------------------
(* Claims about the fetcher, checked under SpecFetch *)

\* every response received so far follows the pagination protocol
AllWellFormed ==
  \A i \in 1..Len(responses) : WellFormed(remoteRecords, requests[i], responses[i])

RECURSIVE ResultsUpTo(_)
\* the records of the first n responses, in order
ResultsUpTo(n) == IF n = 0 THEN <<>> ELSE ResultsUpTo(n - 1) \o responses[n].results

\* C3: against a remote that serves its N records split arbitrarily across
\* pages, each non-final page reporting has_more with a cursor to the next
\* page, the fetcher returns exactly those N records, each once, in the
\* remote's order; its first request carries no cursor and every later request
\* carries the cursor of the immediately preceding response.
C3_FetcherComplete ==
  /\ (fetchPc = "done" /\ toolResult.kind = "ok" /\ AllWellFormed)
       => (allResults = remoteRecords /\ toolResult.prompts = remoteRecords)
  /\ requests # <<>> => requests[1] = NoCursor
  /\ \A i \in 1..Len(responses) :
       i < Len(requests) => requests[i + 1] = responses[i].next_cursor

\* all records of the fullest remote returned from three protocol-following
\* pages
C3_Witness ==
  /\ fetchPc = "done"
  /\ toolResult.kind = "ok"
  /\ AllWellFormed
  /\ Len(responses) >= 3
  /\ Len(remoteRecords) >= 2
  /\ Len(responses[1].results) >= 1
  /\ allResults = remoteRecords

\* C4: a response that reports has_more = false, or has_more = true without a
\* next cursor, is the last one: no request follows it, and the fetcher has
\* returned the records accumulated up to and including that page.
C4_FetcherStops ==
  \A i \in 1..Len(responses) :
    (~responses[i].has_more \/ responses[i].next_cursor = NoCursor)
      => /\ Len(requests) = i
         /\ fetchPc = "done"
         /\ allResults = ResultsUpTo(i)
         /\ toolResult = ListResult(ResultsUpTo(i))

\* the fetcher stopped on a second page that reported more without a cursor,
\* records of the remote still unserved
C4_Witness ==
  /\ fetchPc = "done"
  /\ Len(responses) = 2
  /\ responses[2].has_more
  /\ responses[2].next_cursor = NoCursor
  /\ Len(allResults) < Len(remoteRecords)
  /\ allResults # <<>>

\* C5: when a page request throws, it is the last request of the call (no
\* retry, no further request), list_prompts has returned an error result
\* carrying that error, and the result holds none of the records of the
\* earlier pages.
C5_FailureNoPartial ==
  failure # NoFailure
    => /\ Len(requests) = failure.at
       /\ Len(responses) = failure.at - 1
       /\ fetchPc = "done"
       /\ toolResult.isError
       /\ toolResult.text = ErrorText("Error listing prompts: ", failure.msg)
       /\ toolResult.prompts = <<>>

\* a later page request failed after records had been fetched
C5_Witness ==
  /\ failure.at >= 2
  /\ allResults # <<>>
  /\ toolResult.isError

----------------------------------------------------------------------------
(* Claims about the decoder, checked under SpecDecode *)

Decoded == readResult.kind = "ok"

Content == readResult.text

HasToken(tok) == \E i \in 1..Len(Content) : Content[i] = tok

\* where a token occurs (the text of a block occurs at most once)
PosOf(tok) == CHOOSE i \in 1..Len(Content) : Content[i] = tok

TypeOf(b) == pageBlocks[b].type

TextOf(b) == PlainText(pageBlocks, b)

IsNumbered(b) == TypeOf(b) = "numbered_list_item"

IsListItem(b) == TypeOf(b) \in {"numbered_list_item", "bulleted_list_item"}

\* a block that carries a text of its own which is not empty
HasText(b) ==
  /\ TypeOf(b) \in {"paragraph", "numbered_list_item", "bulleted_list_item"}
  /\ ~pageBlocks[b].empty

Blocks == 1..Len(pageBlocks)

ProperAncestors(b) == AncestorsOrSelf(pageBlocks, b) \ {b}

\* the sibling sequence of b, as a set of ids
SiblingsOf(b) == {x \in Blocks : pageBlocks[x].parent = pageBlocks[b].parent}

\* the position of a numbered item in its maximal run of consecutive
\* numbered siblings
RunIndex(b) ==
  1 + Cardinality({x \in SiblingsOf(b) :
                     /\ x < b
                     /\ \A y \in SiblingsOf(b) : (x <= y /\ y <= b) => IsNumbered(y)})

\* every block above b is of a kind under which the decoder descends
Reached(b) ==
  \A a \in ProperAncestors(b) :
    TypeOf(a) \in {"numbered_list_item", "bulleted_list_item", "synced_block",
                   "unsupported"}

\* the indentation level the tree gives b: one per list item above it
LevelOf(b) == Cardinality({a \in ProperAncestors(b) : IsListItem(a)})

\* the token before the text of a list item
MarkerOf(b) == Content[PosOf(TextOf(b)) - 1]

\* C6: within any sibling sequence the k-th item of a maximal run of
\* consecutive numbered items is rendered with number k: a run after a
\* paragraph, a bulleted item or any other block restarts at 1, and a run goes
\* on correctly after the children of one of its items, whatever numbered
\* lists they contain.
C6_ListNumbering ==
  Decoded =>
    \A b \in Blocks :
      (IsNumbered(b) /\ Reached(b))
        => /\ HasToken(TextOf(b))
           /\ MarkerOf(b) = ToString(RunIndex(b)) \o ". "

\* a numbered item with two numbered children, followed by the next item of
\* its run
C6_Witness ==
  /\ Decoded
  /\ \E a, b, c, d \in Blocks :
       /\ IsNumbered(a) /\ IsNumbered(b) /\ IsNumbered(c) /\ IsNumbered(d)
       /\ pageBlocks[a].parent = PageId
       /\ pageBlocks[b].parent = a /\ pageBlocks[c].parent = a /\ b < c
       /\ pageBlocks[d].parent = PageId /\ a < d
       /\ MarkerOf(c) = "2. "
       /\ MarkerOf(d) = "2. "

\* the first token of the line of b, which has `level` indentation units
LineStart(b, level) ==
  PosOf(TextOf(b)) - (IF IsListItem(b) THEN 1 ELSE 0) - level

\* the first child of p
FirstChild(p) == CHOOSE c \in Blocks : pageBlocks[c].parent = p /\
                   \A x \in Blocks : pageBlocks[x].parent = p => c <= x

\* nothing below p renders anything but white space
BlankBelow(p) ==
  \A x \in Blocks : (p \in ProperAncestors(x) /\ Reached(x)) => ~HasText(x)

\* the item's own line is followed by d + 1 indentation units
ChildIndentFollows(p) ==
  /\ Len(Content) >= PosOf(TextOf(p)) + LevelOf(p) + 2
  /\ Content[PosOf(TextOf(p)) + 1] = NL
  /\ \A j \in 1..(LevelOf(p) + 1) : Content[PosOf(TextOf(p)) + 1 + j] = "  "

\* the line of the first child c of p, a paragraph or a list item, comes
\* right under the item's own line, with d + 1 indentation units
FirstChildLine(p, c) ==
  /\ ChildIndentFollows(p)
  /\ Len(Content) >= PosOf(TextOf(p)) + LevelOf(p) + 3 + (IF IsListItem(c) THEN 1 ELSE 0)
  /\ Content[PosOf(TextOf(p)) + LevelOf(p) + 3 + (IF IsListItem(c) THEN 1 ELSE 0)]
       = TextOf(c)

\* the children of p that render a line with a text of their own
TextChild(p, c) ==
  /\ pageBlocks[c].parent = p
  /\ TypeOf(c) \in {"paragraph", "numbered_list_item", "bulleted_list_item"}

UnderUnknownOnly(b) ==
  /\ ProperAncestors(b) # {}
  /\ \A a \in ProperAncestors(b) : TypeOf(a) = "unsupported"

\* C8: a block of a kind the decoder does not know, with children, adds no
\* text of its own, its children are fetched and they are decoded at the same
\* level: the text of a paragraph under any chain of such blocks is in the
\* output, on a line without indentation.
C8_UnknownPassthrough ==
  Decoded =>
    /\ \A u \in Blocks :
         TypeOf(u) = "unsupported" => ~HasToken("t" \o ToString(u))
    /\ \A c \in Blocks :
         (UnderUnknownOnly(c) /\ TypeOf(c) = "paragraph" /\ HasText(c))
           => /\ HasToken(TextOf(c))
              /\ PosOf(TextOf(c)) = 1 \/ Content[PosOf(TextOf(c)) - 1] = NL
              /\ \A a \in ProperAncestors(c) :
                   Cardinality({i \in 1..Len(fetchLog) : fetchLog[i] = a}) = 1

\* a paragraph under two unknown blocks, one in the other
C8_Witness ==
  /\ Decoded
  /\ \E c \in Blocks :
       /\ UnderUnknownOnly(c) /\ TypeOf(c) = "paragraph" /\ HasText(c)
       /\ Cardinality(ProperAncestors(c)) = 2
       /\ HasToken(TextOf(c))

\* C9: read_prompt returns the full content: the text of every text-bearing
\* block of the page's tree, at any depth and under a parent of any kind,
\* occurs in the returned text.
C9_FullContent ==
  Decoded => \A b \in Blocks : HasText(b) => HasToken(TextOf(b))

----------------------------------------------------------------------------
(* Claims about update_prompt *)

\* the positions in the calls of invocation u of the calls of `op`
CallsOf(u, op) == {k \in 1..Len(u.calls) : u.calls[k].op = op}

\* invocation i returned success for a detailed_prompt, and no other
\* invocation changed the page's children between its start and now
UpdatedAlone(i) ==
  /\ upd[i].pc = "done"
  /\ upd[i].result = SuccessResult
  /\ upd[i].args.detailed_prompt # NoText
  /\ ~upd[i].interfered

\* C10: after update_prompt with a detailed_prompt t returns success, no
\* other invocation having touched the page and no remote call having
\* failed, the children of the page are exactly the paragraph blocks holding
\* the chunks of t in chunk order; every child the page had before was
\* deleted by a delete call of its own, there is a single append call, and
\* every delete call was issued before it.
C10_UpdateReplacesContent ==
  \A i \in Invocations :
    UpdatedAlone(i) =>
      LET u == upd[i]
          cs == splitTextIntoChunks(u.args.detailed_prompt, ScaledMaxLength)
          deletes == CallsOf(u, "blocks.delete")
          appends == CallsOf(u, "blocks.children.append")
      IN /\ Len(pageChildren) = Len(cs)
         /\ \A k \in 1..Len(cs) :
              pageChildren[k].type = "paragraph" /\ pageChildren[k].content = cs[k]
         /\ \A c \in 1..Len(u.calls) : u.calls[c].ok
         /\ \A b \in 1..Len(u.before) :
              Cardinality({d \in deletes : u.calls[d].block = u.before[b]}) = 1
         /\ \A d \in deletes : \E b \in 1..Len(u.before) : u.calls[d].block = u.before[b]
         /\ Cardinality(appends) = 1
         /\ \A d \in deletes : \A a \in appends : d < a

\* an update that deleted several old blocks and appended several chunks
C10_Witness ==
  \E i \in Invocations :
    /\ UpdatedAlone(i)
    /\ Len(upd[i].before) >= 2
    /\ Cardinality(CallsOf(upd[i], "blocks.delete")) >= 2
    /\ Len(pageChildren) >= 2

\* the positions of the calls of invocation u that threw
FailedCalls(u) == {c \in 1..Len(u.calls) : ~u.calls[c].ok}

\* the last call of invocation u was `op`, and it threw
FailedAt(u, op) ==
  /\ Len(u.calls) > 0
  /\ u.calls[Len(u.calls)].op = op
  /\ ~u.calls[Len(u.calls)].ok

\* no invocation other than i has sent a property update
PropsSentOnlyBy(i) ==
  \A j \in Invocations \ {i} : CallsOf(upd[j], "pages.update") = {}

\* the properties that invocation u gave are on the page
PropsApplied(u) ==
  HasProperties(u.args) => pageProps = UpdatedProps(pageProps, u.args)

\* C11: update_prompt has no rollback. Once a remote call of an invocation
\* has thrown, the invocation issues no further remote call and ends with an
\* error result. If it was the k-th block delete, the first k-1 old blocks
\* are gone, the others are still the page's children, no append was issued
\* and the properties already sent are still applied; if it was the append,
\* the page has no content block left (no other invocation having changed
\* the page meanwhile).
C11_NoRollback ==
  \A i \in Invocations :
    LET u == upd[i]
        k == Cardinality(CallsOf(u, "blocks.delete"))
    IN /\ FailedCalls(u) # {} =>
            /\ FailedCalls(u) = {Len(u.calls)}
            /\ u.pc = "done"
            /\ u.result.isError
       /\ (FailedAt(u, "blocks.delete") /\ ~u.interfered) =>
            /\ IdsOf(pageChildren) = SubSeq(u.before, k, Len(u.before))
            /\ CallsOf(u, "blocks.children.append") = {}
            /\ PropsSentOnlyBy(i) => PropsApplied(u)
       /\ (FailedAt(u, "blocks.children.append") /\ ~u.interfered) =>
            /\ pageChildren = <<>>
            /\ k = Len(u.before)
            /\ PropsSentOnlyBy(i) => PropsApplied(u)

\* the second delete of an invocation that had sent properties failed
C11_Witness ==
  \E i \in Invocations :
    /\ FailedAt(upd[i], "blocks.delete")
    /\ ~upd[i].interfered
    /\ Cardinality(CallsOf(upd[i], "blocks.delete")) = 2
    /\ Len(pageChildren) = Len(upd[i].before) - 1
    /\ HasProperties(upd[i].args)
    /\ PropsSentOnlyBy(i)
    /\ pageProps.Name = "n1"

\* an invocation whose append failed after it had deleted every old block
C11_AppendFailed ==
  \E i \in Invocations :
    /\ FailedAt(upd[i], "blocks.children.append")
    /\ ~upd[i].interfered
    /\ Len(upd[i].before) >= 2

\* invocation i returned success for a detailed_prompt
ContentUpdated(i) ==
  /\ upd[i].pc = "done"
  /\ upd[i].result = SuccessResult
  /\ upd[i].args.detailed_prompt # NoText

\* the ids of the blocks that invocation i listed as existing
Listed(i) == {upd[i].existingBlocks[k] : k \in 1..Len(upd[i].existingBlocks)}

\* the blocks invocation i appended that invocation j did not list, hence did
\* not delete
Surviving(i, j) == upd[i].appended \ Listed(j)

\* the contents of the children of the page, in order
ChildContents == [k \in 1..Len(pageChildren) |-> pageChildren[k].content]

\* the chunks of the text of invocation i
Encoding(i) == splitTextIntoChunks(upd[i].args.detailed_prompt, ScaledMaxLength)

\* C12: two update_prompt invocations with detailed_prompt on the same page
\* interleave at their remote calls (list, per-block delete, append), no
\* call waiting for the other invocation: once both have reported success
\* the children of the page are the blocks either of them appended that the
\* other did not list (and so did not delete), which is the encoding of
\* neither text alone when both listed before either appended.
C12_UpdatesInterleave ==
  \A i, j \in Invocations :
       (i # j /\ ContentUpdated(i) /\ ContentUpdated(j)) =>
         /\ {pageChildren[k].id : k \in 1..Len(pageChildren)}
              = Surviving(i, j) \cup Surviving(j, i)
         /\ (Listed(j) \cap upd[i].appended = {} /\ Listed(i) \cap upd[j].appended = {})
              => ChildContents \in {Encoding(i) \o Encoding(j), Encoding(j) \o Encoding(i)}

\* both invocations reported success and the page holds the blocks of both:
\* the encoding of neither text alone
C12_Witness ==
  \E i, j \in Invocations :
    /\ i # j
    /\ ContentUpdated(i) /\ ContentUpdated(j)
    /\ upd[i].args.detailed_prompt # upd[j].args.detailed_prompt
    /\ ChildContents = Encoding(i) \o Encoding(j)
    /\ ChildContents # Encoding(i)
    /\ ChildContents # Encoding(j)
    /\ Len(upd[i].existingBlocks) >= 2
    /\ Len(upd[j].existingBlocks) >= 1

----------------------------------------------------------------------------
(* Claims about the active prompt book and the tool invocations *)

\* C13: every remote call issued by one prompt tool invocation goes to the
\* client of the prompt book that was active when the invocation started,
\* even if activate_prompt_book or remove_prompt_book_config runs at one of
\* its suspension points.
C13_CallsUseStartingClient ==
  \A c \in 1..Len(job.calls) : job.calls[c].client = job.started

----------------------------------------------------------------------------
(* Claims about the order of the decode *)

\* the blocks of the subtree of b (the tree is in document order: a subtree
\* is a range of ids)
Subtree(b) == {x \in Blocks : b \in AncestorsOrSelf(pageBlocks, x)}

\* the positions in the fetch log of the fetches for the blocks of a set
FetchesOf(S) == {k \in 1..Len(fetchLog) : fetchLog[k] \in S}

\* the positions in the content of the texts of the blocks of a set
TextsOf(S) == {PosOf(TextOf(x)) : x \in {y \in S : HasText(y) /\ HasToken(TextOf(y))}}

\* C14: the remote calls of a decode are issued one at a time, in one
\* sequence: the children of the page are fetched first, no block is
\* fetched twice, and for two siblings b before c every fetch and every
\* rendering of the subtree of b comes before every fetch and every rendering
\* of the subtree of c; so the output is the depth-first, input-order
\* concatenation of the block renderings.
C14_DepthFirstOrder ==
  Decoded =>
    /\ fetchLog[1] = PageId
    /\ \A k, m \in 1..Len(fetchLog) : k # m => fetchLog[k] # fetchLog[m]
    /\ \A b, c \in Blocks :
         (pageBlocks[b].parent = pageBlocks[c].parent /\ b < c) =>
           /\ \A k \in FetchesOf(Subtree(b)), m \in FetchesOf(Subtree(c)) : k < m
           /\ \A p \in TextsOf(Subtree(b)), q \in TextsOf(Subtree(c)) : p < q
    /\ \A b \in Blocks : \A x \in Subtree(b) \ {b} :
         /\ \A k \in FetchesOf({b}), m \in FetchesOf({x}) : k < m
         /\ \A p \in TextsOf({b}), q \in TextsOf({x}) : p < q

\* two siblings with children were decoded: the child of the first is
\* fetched and rendered before the second is fetched
C14_Witness ==
  /\ Decoded
  /\ \E b, c \in Blocks :
       /\ pageBlocks[b].parent = pageBlocks[c].parent /\ b < c
       /\ FetchesOf({b}) # {} /\ FetchesOf({c}) # {}
       /\ TextsOf(Subtree(b) \ {b}) # {} /\ TextsOf(Subtree(c) \ {c}) # {}
       /\ TextsOf({b}) # {} /\ TextsOf({c}) # {}

\* the invocation was made without one of the required inputs of its tool
Incomplete == job.pc # "idle" /\ ~job.complete

----------------------------------------------------------------------------
(* Claims about the errors of update_prompt *)

\* the messages of the remote client that report a missing page or database
NotFoundMessages == {"Could not find page", "Could not find database", "Invalid database"}

\* C16: a remote-client error that is not a not-found condition (here the
\* rate limit) is surfaced to the caller with its underlying message and
\* never as a not-found message, for every remote call of update_prompt,
\* the page retrieval it performs first included.
C16_ErrorSurfaced ==
  \A i \in Invocations :
    (upd[i].thrown # "none" /\ upd[i].thrown \notin NotFoundMessages) =>
      /\ upd[i].result.isError
      /\ upd[i].result.kind # NotFoundResult(upd[i].thrown).kind
      /\ upd[i].result.text = <<"Error updating prompt: ", upd[i].thrown>>

----------------------------------------------------------------------------
(* Claims about the prompt book configuration *)

\* the ids of the configured prompt books
ConfiguredIds(cfg) == {cfg.promptBooks[k].id : k \in 1..Len(cfg.promptBooks)}

\* what list_prompt_books returns in the current state
ListedNow == BookList(loadConfig(Server).config)

\* the entries of a list_prompt_books result that are marked is_active
MarkedActive(list) == {k \in 1..Len(list) : list[k].is_active}

\* C17: after any sequence of create_prompt_book_config,
\* create_prompt_database, remove_prompt_book_config, activate_prompt_book
\* and rename_prompt_book, at most one configured prompt book is active
\* (list_prompt_books marks at most one book is_active, in the last list
\* returned and in the list it would return now), and the active book, if
\* any, is one of the configured books: in the configuration, in the file
\* and for this.activePromptBook, whose client has that book's token.
C17_OneActiveBook ==
  /\ Cardinality(MarkedActive(configResult.books)) <= 1
  /\ Cardinality(MarkedActive(ListedNow)) <= 1
  /\ \A k, m \in 1..Len(config.promptBooks) :
       k # m => config.promptBooks[k].id # config.promptBooks[m].id
  /\ config.activePromptBookId # NoBookId =>
       config.activePromptBookId \in ConfiguredIds(config)
  /\ configFile.activePromptBookId # NoBookId =>
       configFile.activePromptBookId \in ConfiguredIds(configFile)
  /\ activePromptBook # NoBook =>
       /\ activePromptBook.id = config.activePromptBookId
       /\ \E k \in 1..Len(config.promptBooks) : config.promptBooks[k] = activePromptBook
       /\ notion = Client(activePromptBook.notion_token)
  /\ activePromptBook = NoBook => notion = NoClient

\* two prompt books are configured, the second is the active one after the
\* first was created active, and list_prompt_books has marked exactly it
C17_Witness ==
  /\ Len(config.promptBooks) >= 2
  /\ activePromptBook # NoBook
  /\ activePromptBook.id = config.promptBooks[2].id
  /\ Len(configResult.books) >= 2
  /\ MarkedActive(configResult.books) = {2}

----------------------------------------------------------------------------
(* Claims about add_prompt *)

\* the add_prompt call has returned, and its type was not among the type
\* options of the database when it was called
AddedUnknownType ==
  /\ add.pc = "done"
  /\ AddComplete(add.args)
  /\ add.result.kind # "McpError"
  /\ add.result.kind # "no_book"
  /\ add.args.type \notin add.typesBefore

\* C18: add_prompt with a type that is not among the database's type
\* options creates the new type only if allow_new_type is true; when
\* allow_new_type is absent or false the call returns an error and changes
\* neither the database schema nor the set of prompts.
C18_NewTypeOnlyIfAllowed ==
  (AddedUnknownType /\ add.args.allow_new_type # "true") =>
    /\ add.result.isError
    /\ dbTypes = add.typesBefore
    /\ dbPrompts = add.promptsBefore

----------------------------------------------------------------------------
(* Claims about the checks of update_prompt *)

\* the calls of update_prompt that change the page
MutatingOps == {"pages.update", "blocks.delete", "blocks.children.append"}

\* the positions of the mutating calls invocation u has issued
MutatingCalls(u) == {c \in 1..Len(u.calls) : u.calls[c].op \in MutatingOps}

\* invocation u was refused: its page could not be retrieved, or its type is
\* not a type option of the database
Refused(u) ==
  /\ u.pc = "done"
  /\ \/ FailedAt(u, "pages.retrieve")
     \/ u.result.kind = InvalidTypeResult.kind

\* C19: update_prompt accepts a new type only if it is a type option of the
\* database: an invocation that returned success with a type gave a valid
\* one, and when the page cannot be retrieved or the type is not valid the
\* invocation returns an error having issued no mutating remote call (no
\* property update, no block delete, no append), so the page is as it was
\* (no other invocation having changed it).
C19_RefusedLeavesPage ==
  \A i \in Invocations :
    LET u == upd[i]
    IN /\ (u.pc = "done" /\ u.result.kind = "ok" /\ u.args.type # Undefined)
            => u.args.type \in ValidTypes
       /\ (u.pc = "done" /\ u.result.kind # "McpError" /\ u.thrown = "none"
             /\ u.result.kind # "no_book"
             /\ u.args.type # Undefined /\ u.args.type \notin ValidTypes)
            => Refused(u)
       /\ Refused(u) =>
            /\ u.result.isError
            /\ MutatingCalls(u) = {}
            /\ (\A j \in Invocations : MutatingCalls(upd[j]) = {}) =>
                 /\ IdsOf(pageChildren) = u.before
                 /\ pageProps = [Name |-> "n0", Type |-> "T0", Tags |-> "g0"]

\* an invocation that gave a name, a text and a type the database lacks was
\* refused on a page that has blocks
C19_Witness ==
  \E i \in Invocations :
    /\ Refused(upd[i])
    /\ upd[i].result = InvalidTypeResult
    /\ upd[i].args.name # Undefined
    /\ upd[i].args.detailed_prompt # NoText
    /\ Len(upd[i].before) >= 2
    /\ Len(pageChildren) >= 2

----------------------------------------------------------------------------
(* Claims about copy_prompt and the round trip of paragraph content *)

\* the text read_prompt returned for a page
ReadOf(page) == {r.text : r \in {x \in reads : x.page = page}}

\* C20: for a source page made only of childless paragraph blocks (at least
\* one), read_prompt of the page copy_prompt created returns the same text
\* as read_prompt of the source page.
C20_RoundTrip ==
  Len(sourcePage) >= 1 =>
    \A s \in ReadOf("source") : \A c \in ReadOf("copy") : c = s

\* what the code does instead: every paragraph of the copy is a chunk of the
\* source's text, and the copy reads as those chunks with a paragraph break
\* after each, so it is longer than the source's text
CopyAddsBreaks ==
  \A s \in ReadOf("source") : \A c \in ReadOf("copy") :
    /\ Concat([k \in 1..Len(copiedPage) |-> copiedPage[k].content]) = s
    /\ Len(c) = Len(s) + 2 * Len(copiedPage)
    /\ Len(copiedPage) >= 1

----------------------------------------------------------------------------
(* Claims about successive decodes, checked under SpecRepeat *)

C25_DecodersEquivalent ==
  \A i, j \in 1..Len(decodes) :
    (decodes[i].by = "read_prompt" /\ decodes[j].by = "copy_prompt") =>
      /\ decodes[i].text = decodes[j].text
      /\ decodes[i].log = decodes[j].log
      /\ decodes[i].left = decodes[j].left

\* both decoders ran on a page with nested blocks, two of them siblings
C25_Witness ==
  /\ \E i, j \in 1..Len(decodes) :
       decodes[i].by = "read_prompt" /\ decodes[j].by = "copy_prompt"
  /\ Len(decodes[1].log) >= 2
  /\ \E a, b \in 1..Len(pageBlocks) :
       a # b /\ pageBlocks[a].parent = pageBlocks[b].parent

----------------------------------------------------------------------------
(* The start of the server. The constructor calls loadConfig() once, before *)
(* any tool handler exists. The environment may hold DEFAULT_BOOKS; the     *)
(* configuration file may or may not exist.                                 *)

\* a prompt book a configuration file or DEFAULT_BOOKS may already hold
StoredBook ==
  [id |-> 1, name |-> "n1", notion_token |-> "tokA", notion_database_id |-> "dbOld"]

\* the configuration the README gives as the value of DEFAULT_BOOKS: one
\* prompt book, which is the active one
DefaultConfig == [promptBooks |-> <<StoredBook>>, activePromptBookId |-> 1]

\* the environment: DEFAULT_BOOKS unset, not valid JSON of the expected
\* structure, or a valid configuration
DefaultBooksValues ==
  {[state |-> "unset", value |-> EmptyConfig],
   [state |-> "invalid", value |-> EmptyConfig],
   [state |-> "valid", value |-> DefaultConfig]}

\* the contents a configuration file may have at the start
StartFiles ==
  {EmptyConfig,
   [promptBooks |-> <<StoredBook>>, activePromptBookId |-> NoBookId],
   [promptBooks |-> <<[StoredBook EXCEPT !.name = "n2"]>>, activePromptBookId |-> 1]}

\* the fields of a new PromptBookServer, before the constructor runs
StartInit ==
  /\ SplitIdle
  /\ DecodeIdle
  /\ FetchIdle
  /\ UpdateIdle
  /\ AddIdle
  /\ CopyIdle
  /\ config = EmptyConfig
  /\ activePromptBook = NoBook
  /\ notion = NoClient
  /\ configResult = NoConfigResult
  /\ dbJob = IdleDbJob
  /\ job = IdleJob
  /\ \E existed \in BOOLEAN, env \in DefaultBooksValues :
       /\ boot = [started |-> FALSE, fileExisted |-> existed, DEFAULT_BOOKS |-> env,
                  loaded |-> [config |-> EmptyConfig, active |-> NoBook]]
       /\ IF existed
          THEN configFile \in StartFiles
          ELSE configFile = EmptyConfig
       /\ nextBookId = IF existed /\ configFile.promptBooks # <<>> THEN 2 ELSE 1

\* loadConfig() where the file does not exist: an empty configuration is
\* made and saved; the environment is not read
loadConfigNoFile(s) == saveConfig([s EXCEPT !.config = EmptyConfig])

\* constructor: this.loadConfig()
Construct ==
  /\ ~boot.started
  /\ LET s == IF boot.fileExisted THEN loadConfig(Server) ELSE loadConfigNoFile(Server)
     IN /\ Becomes(s)
        /\ boot' = [boot EXCEPT !.started = TRUE,
                                !.loaded = [config |-> s.config, active |-> s.active]]
  /\ UNCHANGED <<nextBookId, configResult, dbJob, job>>
  /\ UNCHANGED notBoot

\* the tool handlers are set up after loadConfig() has returned
StartNext ==
  \/ Construct
  \/ boot.started /\ ConfigNext

SpecStart == StartInit /\ [][StartNext]_vars

\* C24: at server start, where the configuration file does not exist and
\* DEFAULT_BOOKS holds a valid configuration, the loaded configuration
\* (books and active book) equals DEFAULT_BOOKS; where the file exists
\* DEFAULT_BOOKS is ignored; where DEFAULT_BOOKS is invalid an empty
\* configuration is created.
C24_DefaultBooksLoaded ==
  boot.started =>
    /\ (~boot.fileExisted /\ boot.DEFAULT_BOOKS.state = "valid") =>
         /\ boot.loaded.config = boot.DEFAULT_BOOKS.value
         /\ boot.loaded.active = StoredBook
    /\ boot.fileExisted => boot.loaded.config \in StartFiles
    /\ (~boot.fileExisted /\ boot.DEFAULT_BOOKS.state = "invalid") =>
         boot.loaded.config = EmptyConfig

----------------------------------------------------------------------------
(* Configuration-file reads and writes that fail. loadConfig() catches a    *)
(* failed read or parse and saveConfig() catches a failed write; both only  *)
(* log the error, and the handler that called them goes on.                 *)

\* loadConfig() where readFileSync or JSON.parse throws: the catch block
\* assigns the empty configuration and nothing else
loadConfigFails(s) == [s EXCEPT !.config = EmptyConfig]

\* list_prompt_books whose loadConfig() fails to read the file
ListPromptBooksReadFails ==
  /\ LET s == loadConfigFails(Server)
     IN /\ Becomes(s)
        /\ configResult' = [tool |-> "list_prompt_books", kind |-> "ok",
                            books |-> BookList(s.config)]
  /\ UNCHANGED <<nextBookId, dbJob, job>>
  /\ UNCHANGED notConfig

\* activate_prompt_book whose saveConfig() fails to write the file
ActivatePromptBookWriteFails ==
  /\ \E id \in BookIds :
       LET s == loadConfig(Server)
           k == FindIndex(s.config.promptBooks, id)
       IN IF k = 0
          THEN /\ Becomes(s)
               /\ configResult' = ConfigResult("error")
          ELSE /\ Becomes([setActivePromptBook(s, id) EXCEPT !.file = s.file])
               /\ configResult' = ConfigResult("ok")
  /\ UNCHANGED <<nextBookId, dbJob, job>>
  /\ UNCHANGED notConfig

FaultsNext ==
  \/ CreatePromptBookConfig
  \/ RemovePromptBookConfig
  \/ ActivatePromptBook
  \/ ListPromptBooks
  \/ RenamePromptBook
  \/ ListPromptBooksReadFails
  \/ ActivatePromptBookWriteFails

SpecFaults == ConfigInit /\ [][FaultsNext]_vars

\* C27: in every reachable state, including after a configuration-file read
\* or write that failed, the active prompt book and its client are both set
\* or both unset, and when set the active prompt book is the configured
\* prompt book whose id equals config.activePromptBookId (when that id is
\* unset, no prompt book is active).
C27_ActiveConsistent ==
  /\ (activePromptBook = NoBook) <=> (notion = NoClient)
  /\ activePromptBook # NoBook =>
       \E k \in 1..Len(config.promptBooks) :
         /\ config.promptBooks[k].id = config.activePromptBookId
         /\ config.promptBooks[k] = activePromptBook
         /\ notion = Client(activePromptBook.notion_token)
  /\ config.activePromptBookId = NoBookId => activePromptBook = NoBook

----------------------------------------------------------------------------
(* Claims about the configuration tools.                                    *)

\* the step is the return of create_prompt_database
DatabaseReturns == dbJob.pc = "creating" /\ dbJob'.pc = "idle"

\* the step adds a prompt book
BookAdded == Len(config'.promptBooks) > Len(config.promptBooks)

\* the active prompt book, its client and its id in the configuration are
\* the same before and after the step
ActiveUnchanged ==
  /\ activePromptBook' = activePromptBook
  /\ notion' = notion
  /\ config'.activePromptBookId = config.activePromptBookId

\* C26: adding a prompt book changes the active prompt book only in two
\* cases: create_prompt_book_config activates the new book exactly when it
\* is the only configured book after the add, and create_prompt_database
\* activates it exactly when activate is true; in every other case the
\* active prompt book is the same before and after, and a failed remote
\* database creation adds no book.
C26_AddActivates ==
  [][/\ BookAdded =>
          LET new == config'.promptBooks[Len(config'.promptBooks)]
              activates == IF DatabaseReturns
                           THEN dbJob.activate
                           ELSE Len(config'.promptBooks) = 1
          IN /\ Len(config'.promptBooks) = Len(config.promptBooks) + 1
             /\ IF activates
                THEN /\ activePromptBook' = new
                     /\ notion' = Client(new.notion_token)
                     /\ config'.activePromptBookId = new.id
                ELSE ActiveUnchanged
     /\ (DatabaseReturns /\ configResult'.kind = "error") =>
          /\ config' = config
          /\ configFile' = configFile
          /\ ActiveUnchanged]_vars

\* a database created with activate true became the active prompt book
\* while an older prompt book stays configured
C26_Witness ==
  /\ Len(config.promptBooks) = 2
  /\ config.promptBooks[2].notion_database_id = "dbNew"
  /\ activePromptBook = config.promptBooks[2]
  /\ config.promptBooks[1].notion_database_id = "db"
  /\ configResult.kind = "ok"

\* id is the id of a configured prompt book
Configured(id) == \E k \in 1..Len(config.promptBooks) : config.promptBooks[k].id = id

\* C30: activate_prompt_book, remove_prompt_book_config and
\* rename_prompt_book called with an id that matches no configured prompt
\* book return an error result and leave the list of books and the active
\* prompt book unchanged; remove_prompt_book_config of a book that is not
\* the active one leaves the active prompt book unchanged, and removing the
\* active one leaves no prompt book active.
C30_UnknownIdAndRemove ==
  [][\A id \in BookIds :
       /\ (/\ ~Configured(id)
           /\ \/ ActivatePromptBookOf(id)
              \/ RemovePromptBookConfigOf(id)
              \/ \E name \in BookNames : RenamePromptBookOf(id, name)) =>
            /\ configResult'.kind = "error"
            /\ config'.promptBooks = config.promptBooks
            /\ configFile' = configFile
            /\ ActiveUnchanged
       /\ (Configured(id) /\ RemovePromptBookConfigOf(id)) =>
            /\ configResult'.kind = "ok"
            /\ Len(config'.promptBooks) = Len(config.promptBooks) - 1
            /\ \A k \in 1..Len(config'.promptBooks) : config'.promptBooks[k].id # id
            /\ IF config.activePromptBookId = id
               THEN /\ activePromptBook' = NoBook
                    /\ notion' = NoClient
                    /\ config'.activePromptBookId = NoBookId
               ELSE ActiveUnchanged]_vars

\* the first prompt book, which was active, has been removed: the second
\* stays configured and no prompt book is active
C30_Witness ==
  /\ Len(config.promptBooks) = 1
  /\ config.promptBooks[1].id = 2
  /\ nextBookId = 3
  /\ activePromptBook = NoBook
  /\ config.activePromptBookId = NoBookId
  /\ configResult.kind = "ok"

\* the step is the call of a prompt tool
PromptToolCalled == job.pc = "idle" /\ job'.pc # "idle" /\ job'.tool \in PromptTools

\* C29: while no prompt book is active, every prompt tool returns the
\* no-active-prompt-book error result, makes no remote call and leaves the
\* configuration unchanged, also after the active prompt book has been
\* removed while other prompt books stay configured.
C29_NoActiveNoCall ==
  [][(PromptToolCalled /\ activePromptBook = NoBook) =>
       /\ job'.pc = "done"
       /\ job'.result = NoBookResult
       /\ job'.calls = <<>>
       /\ job'.plan = <<>>
       /\ UNCHANGED <<config, configFile, activePromptBook, notion>>]_vars

\* a prompt tool was refused after the active prompt book had been removed,
\* with the second prompt book still configured
C29_Witness ==
  /\ job.pc = "done"
  /\ job.tool \in PromptTools
  /\ job.result = NoBookResult
  /\ job.calls = <<>>
  /\ activePromptBook = NoBook
  /\ Len(config.promptBooks) = 1
  /\ config.promptBooks[1].id = 2

====
